---- MODULE Spec2Model ----
(***************************************************************************)
(* Model of the mob-org mobile client.                                     *)
(*                                                                         *)
(* HomeScreen (src/src/screens/HomeScreen.tsx): the post list, its search  *)
(* filter, fetchPosts / onRefresh and the optimistic like toggle           *)
(* handleLike, running against the hosted backend's `posts.likes` column   *)
(* and `post_likes` edge table.  Every `await` of the source is a          *)
(* suspension point: the code up to an await, and the code that runs when  *)
(* the awaited call resolves, are each one atomic step of the              *)
(* single-threaded event loop.  A second viewer runs the same remote steps *)
(* of handleLike from another device.                                      *)
(***************************************************************************)
EXTENDS Integers, Sequences, FiniteSets, TLC

\* ------------------------------------------------------------------ bounds

\* user gestures (a like press, a pull to refresh, a search text change) and
\* environment events (the second viewer's like press, the loss of the
\* session) in one behaviour
MaxEvents == 2
\* handleLike invocations made on this device in one behaviour
MaxLikeCalls == 2
\* pull-to-refresh gestures made on this device in one behaviour
MaxRefreshes == 1
\* like toggles made by the second viewer in one behaviour
MaxOtherCalls == 1

\* ---------------------------------------------------------------- universe

Me == "me"
Other == "other"
NoUser == "none"
Viewers == {Me, Other}

\* rows of the posts table, in the order of .order('created_at', desc)
PostOrder == <<"p1", "p2">>
PostIds == {PostOrder[i] : i \in 1..Len(PostOrder)}

\* title and content of the posts: "Ab" / "b", "b " / "Bc", " a" / ""
PostTitle(id) ==
  IF id = "p1" THEN <<"A", "b">> ELSE IF id = "p2" THEN <<"b", " ">> ELSE <<" ", "a">>

PostContent(id) ==
  IF id = "p1" THEN <<"b">> ELSE IF id = "p2" THEN <<"B", "c">> ELSE << >>

\* the posts the second viewer toggles
OtherPosts == {"p1"}

\* the posts rows' is_members_only and organization_ids columns: p2 is a
\* members-only post of the organization
is_members_only(id) == id = "p2"
organization_ids(id) == {"o1"}

\* texts the user types into the Searchbar
Queries == {<< >>, <<" ">>, <<"a">>}

\* the posts and the queries the search filter is exercised on
SearchPostIds == PostIds \cup {"p3"}

SearchQueries == Queries \cup {<<"B">>, <<"b", " ">>, <<" ", "a">>, <<"c">>}

LikeCalls == 1..MaxLikeCalls
OtherCalls == 1..MaxOtherCalls
Fetches == {<<"mount", 1>>} \cup {<<"refresh", i>> : i \in 1..MaxRefreshes}
             \cup {<<"recover", c>> : c \in LikeCalls}

NotLoggedInMsg == "Please log in to like posts"
LikeErrorMsg == "Error updating like:"

\* ----------------------------------------------------- calendar and events

\* instants of one calendar day
TicksPerDay == 3
\* calendar days are 0..LastDay
LastDay == 2
\* gestures and environment events in one run of the Profile screen
MaxProfileGestures == 4

Instants == 0..((LastDay + 1) * TicksPerDay - 1)

\* an event_date as stored: the calendar day and the time of day it names
EventDates == (0..LastDay) \X (0..(TicksPerDay - 1))

EventCategories == {"upcoming", "ongoing", "past"}

Org == "o1"

\* the rows an officer may post while the screen is open
PostedDates == {<<1, 0>>, <<LastDay, 0>>}

EventFetches == {<<"mount", 1>>} \cup {<<"refresh", i>> : i \in 1..MaxRefreshes}

\* ------------------------------------------------------------ pure helpers

\* String.prototype.toLowerCase on one character
LowerChar(ch) == IF ch = "A" THEN "a" ELSE IF ch = "B" THEN "b" ELSE ch

toLowerCase(s) == [i \in 1..Len(s) |-> LowerChar(s[i])]

\* String.prototype.includes
includes(s, sub) ==
  \E k \in 0..(Len(s) - Len(sub)) : \A j \in 1..Len(sub) : s[k + j] = sub[j]

RECURSIVE trimLeft(_)
trimLeft(s) == IF s # << >> /\ Head(s) = " " THEN trimLeft(Tail(s)) ELSE s

RECURSIVE trimRight(_)
trimRight(s) ==
  IF s # << >> /\ s[Len(s)] = " " THEN trimRight(SubSeq(s, 1, Len(s) - 1)) ELSE s

\* String.prototype.trim
trim(s) == trimRight(trimLeft(s))

\* mutant: only the title is searched
MatchesQueryTitleOnly(post, q) ==
  includes(toLowerCase(PostTitle(post.id)), toLowerCase(q))

\* the predicate of posts.filter(...) in the search effect and in handleLike
MatchesQuery(post, q) ==
  \/ includes(toLowerCase(PostTitle(post.id)), toLowerCase(q))
  \/ includes(toLowerCase(PostContent(post.id)), toLowerCase(q))

\* mutant: no query, no results
FilterPostsNothingOnEmpty(ps, q) ==
  IF trim(q) = << >> THEN << >> ELSE SelectSeq(ps, LAMBDA post : MatchesQuery(post, q))

\* mutant: the first match is skipped (an offset of one)
FilterPostsSkipsFirst(ps, q) ==
  IF trim(q) = << >>
    THEN ps
    ELSE LET found == SelectSeq(ps, LAMBDA post : MatchesQuery(post, q))
         IN IF found = << >> THEN found ELSE Tail(found)

\* the search filter: the whole list for a query that trims to '', otherwise
\* the posts whose title or content contains the query
FilterPosts(ps, q) ==
  IF trim(q) = << >> THEN ps ELSE SelectSeq(ps, LAMBDA post : MatchesQuery(post, q))

\* mutant: the effect's dependency list is [searchQuery] only, so it does not
\* run when posts changes
SearchEffectOnQueryOnly(shown, ps, q) == shown

\* useEffect(..., [searchQuery, posts]) running because posts changed: the
\* displayed list after it; shown is what the handler itself passed to
\* setFilteredPosts
SearchEffect(shown, ps, q) == FilterPosts(ps, q)

\* mutant: the like count is incremented whatever currentlyLiked is
OptimisticPostsAlwaysUp(ps, postId, currentlyLiked) ==
  [i \in 1..Len(ps) |->
     IF ps[i].id = postId
       THEN [ps[i] EXCEPT !.likes = @ + 1,
                          !.isLiked = IF currentlyLiked THEN "false" ELSE "true"]
       ELSE ps[i]]

\* the optimistic list: posts.map(...) over the list the handler closed over
OptimisticPosts(ps, postId, currentlyLiked) ==
  [i \in 1..Len(ps) |->
     IF ps[i].id = postId
       THEN [ps[i] EXCEPT !.likes = IF currentlyLiked THEN @ - 1 ELSE @ + 1,
                          !.isLiked = IF currentlyLiked THEN "false" ELSE "true"]
       ELSE ps[i]]

\* JavaScript's  x || d  on a number
OrElse(x, d) == IF x = 0 THEN d ELSE x

\* mutant: the count is adjusted without the  || 1  fallback
NewLikeCountPlain(likes, currentlyLiked) ==
  IF currentlyLiked THEN likes - 1 ELSE likes + 1

\* newLikeCount, from the freshly read likes column
NewLikeCount(likes, currentlyLiked) ==
  IF currentlyLiked THEN OrElse(likes, 1) - 1 ELSE OrElse(likes, 0) + 1

\* mutant: the delete matches no row
EdgeMutationNeverDeletes(edges, user, postId, currentlyLiked) ==
  edges \cup (IF currentlyLiked THEN {} ELSE {<<postId, user>>})

\* the like-edge step on the post_likes table: delete the viewer's rows for
\* the post, or insert one
EdgeMutation(edges, user, postId, currentlyLiked) ==
  IF currentlyLiked THEN edges \ {<<postId, user>>} ELSE edges \cup {<<postId, user>>}

\* mutant: an atomic adjustment of the stored count
WriteBackAtomic(stored, read, currentlyLiked) == NewLikeCount(stored, currentlyLiked)

\* the value update({ likes: newLikeCount }) stores in posts.likes: computed
\* from the count read in the step before, whatever is stored by now
WriteBack(stored, read, currentlyLiked) == NewLikeCount(read, currentlyLiked)

\* the rows fetchPosts reads from the posts table (no isLiked field yet)
SelectPosts(likes) ==
  [i \in 1..Len(PostOrder) |->
     [id |-> PostOrder[i], likes |-> likes[PostOrder[i]], isLiked |-> "undefined"]]

\* mutant: the membership test never matches (has(post) for has(post.id))
WithLikeStatusNeverLiked(data, edges, user) ==
  [i \in 1..Len(data) |-> [data[i] EXCEPT !.isLiked = "false"]]

\* postsWithLikeStatus: isLiked from the viewer's like edges
WithLikeStatus(data, edges, user) ==
  [i \in 1..Len(data) |->
     [data[i] EXCEPT !.isLiked =
        IF <<data[i].id, user>> \in edges THEN "true" ELSE "false"]]

\* new Date(event.event_date): the instant the stored timestamp denotes
Date(s) == s[1] * TicksPerDay + s[2]

\* date-fns startOfDay: the first instant of the instant's calendar day
startOfDay(t) == t - (t % TicksPerDay)

\* date-fns isAfter, isBefore, isSameDay
isAfter(date, dateToCompare) == date > dateToCompare

isBefore(date, dateToCompare) == date < dateToCompare

isSameDay(dateLeft, dateRight) == startOfDay(dateLeft) = startOfDay(dateRight)

\* the predicate of eventsList.filter(...) in filterEventsByCategory: the
\* switch on selectedCategory
InCategory(event, selectedCategory, now) ==
  LET eventDate == Date(event.event_date)
  IN CASE selectedCategory = "upcoming" -> isAfter(eventDate, now)
       [] selectedCategory = "ongoing" -> isSameDay(eventDate, now)
       [] selectedCategory = "past" -> isBefore(eventDate, now)
       [] OTHER -> TRUE

\* filterEventsByCategory: the list it hands to setFilteredEvents, with now
\* the instant  new Date()  gave
filterEventsByCategory(eventsList, selectedCategory, now) ==
  SelectSeq(eventsList, LAMBDA event : InCategory(event, selectedCategory, now))

\* mutant: the effect's dependency list is [category] only
FilterEffectOnCategoryOnly(shown, eventsList, selectedCategory, now, changed) ==
  IF changed = "category"
    THEN filterEventsByCategory(eventsList, selectedCategory, now)
    ELSE shown

\* useEffect(() => filterEventsByCategory(events, category), [category,
\* events]): the displayed list after the effect, run because `changed` (the
\* category or the events list) changed; shown is the list displayed before
FilterEffect(shown, eventsList, selectedCategory, now, changed) ==
  filterEventsByCategory(eventsList, selectedCategory, now)

\* visibleEvents: members-only events are kept for members of the owning
\* organization
VisibleEvents(eventsData, memberOrgIds) ==
  SelectSeq(eventsData,
            LAMBDA event : ~event.is_members_only \/ event.organization_id \in memberOrgIds)

\* .order('event_date', { ascending: true }): a new row takes its place by
\* event_date
RECURSIVE InsertByDate(_, _)
InsertByDate(rows, row) ==
  IF rows = << >> \/ Date(row.event_date) < Date(Head(rows).event_date)
    THEN <<row>> \o rows
    ELSE <<Head(rows)>> \o InsertByDate(Tail(rows), row)

EventRow(id, date, membersOnly) ==
  [id |-> id, event_date |-> date, is_members_only |-> membersOnly,
   organization_id |-> Org]

\* ------------------------------------------------------------------- state

VARIABLES
  dbLikes,        \* backend: posts.likes, by post id
  dbEdges,        \* backend: post_likes rows, as <<post_id, user_id>>
  session,        \* the viewer supabase.auth.getUser() resolves to, or NoUser
  posts,          \* useState posts
  filteredPosts,  \* useState filteredPosts
  searchQuery,    \* useState searchQuery
  loading,        \* useState loading
  refreshing,     \* useState refreshing
  call,           \* handleLike invocations on this device
  fetch,          \* fetchPosts invocations on this device
  other,          \* handleLike invocations of the second viewer (remote steps)
  events,         \* gestures and environment events so far (bounded by MaxEvents)
  clock,          \* the instant new Date() returns
  dbMember,       \* backend: the viewer's row of the members table, or NoRow
  dbEventRows,    \* backend: the posts rows with an event_date, by event_date
  eventsScreen,   \* EventsScreen: its useState values, by name
  eventsFetch,    \* EventsScreen: fetchEvents invocations
  profileScreen,  \* ProfileScreen: its useState values, by name
  profileFetch,   \* ProfileScreen: fetchUserProfile invocations
  editCall,       \* ProfileScreen: handleEdit invocations
  passwordCall,   \* ProfileScreen: handleChangePassword invocations
  pictureCall,    \* ProfileScreen: the downloadImage invocation
  unhandled,      \* the async functions whose promise rejected with no handler
  dbPassword,     \* backend: the account's password
  route,          \* the screen the navigator shows
  setupScreen,    \* ProfileSetupScreen: its useState values, by name
  setupCall,      \* ProfileSetupScreen: handleSubmit invocations
  dbStorage,      \* backend: the files of the profile-pictures bucket
  loginScreen,    \* LoginScreen: its useState values, by name
  loginCall,      \* LoginScreen: handleEmailSignIn invocations
  orgsScreen,     \* OrganizationsScreen: its useState values, by name
  orgsFetch       \* OrganizationsScreen: fetchUserOrganizations invocations

\* what the Events screen adds to the state
eventsVars == <<dbEventRows, eventsScreen, eventsFetch>>

\* what the Profile screen adds to the state
profileVars == <<profileScreen, profileFetch, editCall>>

\* the Profile screen's password modal and picture, and the account
profileMore == <<passwordCall, pictureCall, unhandled, dbPassword>>

\* what the ProfileSetup, Login and Organizations screens add to the state
setupVars == <<setupScreen, setupCall, dbStorage>>
loginVars == <<loginScreen, loginCall>>
orgsVars == <<orgsScreen, orgsFetch>>
laterVars == <<route, setupVars, loginVars, orgsVars>>

\* the state the Home screen's handlers neither read nor write
beyondHome == <<clock, dbMember, eventsVars, profileVars, profileMore, laterVars>>

\* the Home screen's view state and the like tables
homeVars == <<dbLikes, dbEdges, posts, filteredPosts, searchQuery, loading,
              refreshing, call, fetch, other>>

vars == <<dbLikes, dbEdges, session, posts, filteredPosts, searchQuery,
          loading, refreshing, call, fetch, other, events, beyondHome>>

IdleCall ==
  [pc |-> "idle", postId |-> "p1", currentlyLiked |-> FALSE, user |-> NoUser,
   posts |-> << >>, searchQuery |-> << >>, optimistic |-> FALSE, read |-> 0,
   issued |-> << >>, failed |-> "none", report |-> ""]

IdleFetch == [pc |-> "idle", user |-> NoUser, data |-> << >>]

IdleOther ==
  [pc |-> "idle", postId |-> "p1", currentlyLiked |-> FALSE, read |-> 0,
   failed |-> FALSE]

\* fetchPosts up to its first await: setLoading(true), getUser issued
StartedFetch == [IdleFetch EXCEPT !.pc = "getUser"]

\* the like edges stored when the screen mounts: the viewer has liked post p1
\* or has not, and nobody else has liked a post yet
InitialEdges == {{}, {<<"p1", Me>>}}

LikesOf(edges, p) == Cardinality({v \in Viewers : <<p, v>> \in edges})

\* no row of the members table (and a null member in view state)
NoRow == [id |-> NoUser]

Names == {"", "Ana"}

\* the viewer's members row as profile setup leaves it
MemberRow(orgs) ==
  [id |-> Me, first_name |-> "Ana", last_name |-> "Cruz", bio |-> "",
   updated_at |-> 0, organization_ids |-> orgs,
   profile_picture_url |-> "pic"]

\* EventsScreen as constructed: the useState initial values; filteredAt is the
\* instant of the evaluation of filterEventsByCategory that produced
\* filteredEvents (the filter effect also runs on mount)
ConstructedEventsScreen(now) ==
  [events |-> << >>, filteredEvents |-> << >>, category |-> "upcoming",
   loading |-> TRUE, refreshing |-> FALSE, filteredAt |-> now]

\* a fetchEvents invocation: category is the one of the render the function
\* was created in, sawCategory the selected one when it installed its result
IdleEventsFetch ==
  [pc |-> "idle", category |-> "upcoming", memberOrgIds |-> {},
   sawCategory |-> "upcoming"]

\* fetchEvents up to its first await: setLoading(true), getUser issued
StartedEventsFetch(category) ==
  [IdleEventsFetch EXCEPT !.pc = "getUser", !.category = category]

EditCalls == 1..MaxLikeCalls

ProfileFetches == {<<"mount", 1>>} \cup {<<"edit", c>> : c \in EditCalls}

\* ProfileScreen as constructed; alert is the last Alert.alert message
ConstructedProfileScreen ==
  [member |-> NoRow, loading |-> TRUE, editing |-> FALSE,
   editForm |-> [firstName |-> "", lastName |-> "", bio |-> ""], alert |-> "",
   profilePicture |-> "", changePasswordVisible |-> FALSE, newPassword |-> "",
   confirmPassword |-> "", changingPassword |-> FALSE]

IdleProfileFetch == [pc |-> "idle"]

\* a handleEdit invocation: form is the editForm it closed over, issued the
\* backend calls it has made, before the members row when it was called
IdleEdit ==
  [pc |-> "idle", form |-> [firstName |-> "", lastName |-> "", bio |-> ""],
   issued |-> << >>, before |-> NoRow]

PasswordCalls == 1..MaxLikeCalls

\* texts typed into the password fields
Passwords == {"", "pw1", "pw2"}

\* the account's password before any change
OldPassword == "pw0"

\* a handleChangePassword invocation: issued is the backend calls it has made
IdlePassword == [pc |-> "idle", newPassword |-> "", issued |-> << >>]

\* a downloadImage invocation
IdlePicture == [pc |-> "idle", path |-> ""]

SetupCalls == 1..MaxLikeCalls

EmptyForm == [firstName |-> "", lastName |-> "", bio |-> ""]

\* ProfileSetupScreen as constructed; profilePicture "" is null, alert is
\* the last Alert.alert message, checkSession the position of the mount
\* effect's checkSession
ConstructedSetupScreen ==
  [loading |-> FALSE, error |-> "", formData |-> EmptyForm,
   profilePicture |-> "", uploading |-> FALSE, alert |-> "",
   checkSession |-> "idle"]

\* a handleSubmit invocation: formData and profilePicture are the ones it
\* closed over, issued the backend calls it has made, uploadFailed whether
\* its uploadProfilePicture threw
IdleSetup ==
  [pc |-> "idle", formData |-> EmptyForm, profilePicture |-> "",
   issued |-> << >>, profilePictureUrl |-> "", uploadFailed |-> FALSE]

LoginCalls == 1..MaxLikeCalls

\* LoginScreen as constructed; error "" is null, the email a sequence of
\* pieces of text
ConstructedLoginScreen ==
  [loading |-> FALSE, error |-> "", email |-> << >>, password |-> "",
   isSignUp |-> FALSE]

\* a handleEmailSignIn invocation: email, password and isSignUp are the ones
\* it closed over, issued the backend calls it has made
IdleLogin ==
  [pc |-> "idle", email |-> << >>, password |-> "", isSignUp |-> FALSE,
   issued |-> << >>]

OrgFetches == {<<"mount", 1>>} \cup {<<"refresh", i>> : i \in 1..MaxRefreshes}

\* OrganizationsScreen as constructed
ConstructedOrgsScreen ==
  [organizations |-> {}, loading |-> TRUE, refreshing |-> FALSE,
   userId |-> NoUser]

IdleOrgsFetch == [pc |-> "idle", ids |-> {}]

\* no password change and no picture download has been started
ProfileMoreIdle ==
  /\ passwordCall = [c \in PasswordCalls |-> IdlePassword]
  /\ pictureCall = IdlePicture
  /\ unhandled = {}
  /\ dbPassword = OldPassword

\* the ProfileSetup screen is not open
SetupNotMounted ==
  /\ setupScreen = ConstructedSetupScreen
  /\ setupCall = [c \in SetupCalls |-> IdleSetup]
  /\ dbStorage = {}

\* the Login screen is not open
LoginNotMounted ==
  /\ loginScreen = ConstructedLoginScreen
  /\ loginCall = [c \in LoginCalls |-> IdleLogin]

\* the Organizations screen is not open
OrgsNotMounted ==
  /\ orgsScreen = ConstructedOrgsScreen
  /\ orgsFetch = [f \in OrgFetches |-> IdleOrgsFetch]

\* the ProfileSetup, Login and Organizations screens are not open and the
\* navigator shows the main tabs
LaterNotMounted ==
  /\ route = "MainTabs"
  /\ SetupNotMounted
  /\ LoginNotMounted
  /\ OrgsNotMounted

\* the Events screen is not open: constructed values, no fetch
EventsNotMounted ==
  /\ dbEventRows = << >>
  /\ eventsScreen = ConstructedEventsScreen(clock)
  /\ eventsFetch = [f \in EventFetches |-> IdleEventsFetch]

\* the Profile screen is not open
ProfileNotMounted ==
  /\ profileScreen = ConstructedProfileScreen
  /\ profileFetch = [f \in ProfileFetches |-> IdleProfileFetch]
  /\ editCall = [c \in EditCalls |-> IdleEdit]
  /\ ProfileMoreIdle

\* The state after the screen is constructed and mounted: empty lists,
\* loading shown, and the mount effect has called fetchPosts.
Init ==
  /\ dbEdges \in InitialEdges
  /\ dbLikes = [p \in PostIds |-> LikesOf(dbEdges, p)]
  /\ session \in {Me, NoUser}
  /\ posts = << >>
  /\ filteredPosts = << >>
  /\ searchQuery = << >>
  /\ loading = TRUE
  /\ refreshing = FALSE
  /\ call = [c \in LikeCalls |-> IdleCall]
  /\ fetch = [f \in Fetches |-> IF f = <<"mount", 1>> THEN StartedFetch ELSE IdleFetch]
  /\ other = [o \in OtherCalls |-> IdleOther]
  /\ events = 0
  /\ clock = TicksPerDay
  /\ dbMember = MemberRow({})
  /\ EventsNotMounted
  /\ ProfileNotMounted
  /\ LaterNotMounted

\* the list (and with it the like buttons, the Searchbar and the
\* RefreshControl) is rendered unless  loading && !refreshing
ListVisible == ~(loading /\ ~refreshing)

\* ------------------------------------------------- handleLike (this device)

\* mutant: the guard is missing
ViewerMissingUnchecked(user) == FALSE

\* the guard  if (!user)  after getUser
ViewerMissing(user) == user = NoUser

\* the not-logged-in branch: console.log and return
NotLoggedIn(me) ==
  [me EXCEPT !.pc = "done", !.report = NotLoggedInMsg, !.posts = << >>,
             !.searchQuery = << >>]

\* mutant: a failed like-edge step is not thrown and the handler goes on to
\* the count re-read
AfterFailureGoesOn(step) == IF step = "edge" THEN "read" ELSE "done"

\* where the handler goes when a remote step has failed: the throw leaves the
\* try block for the catch clause, and the handler ends there
AfterFailure(step) == "done"

\* if (deleteError) throw ..., if (insertError) throw ..., if (fetchError)
\* throw ..., if (updateError) throw ...: the step that failed
Throw(me, step) == [me EXCEPT !.failed = step]

\* the catch clause's record of the call: console.error, then the handler ends
CatchClause(me) == [me EXCEPT !.pc = AfterFailure(me.failed), !.report = LikeErrorMsg]

\* mutant: a failed write-back is only logged
RecoveryFetchNotAfterWrite(step) == IF step = "write" THEN IdleFetch ELSE StartedFetch

\* the catch clause's fetchPosts(), run up to its first await
RecoveryFetch(step) == StartedFetch

\* onPress={() => handleLike(item.id, !!item.isLiked)} on a rendered item:
\* the handler runs up to  await supabase.auth.getUser(), holding the posts
\* and searchQuery of the render it was created in
PressLike(c, i) ==
  /\ events < MaxEvents
  /\ events' = events + 1
  /\ ListVisible
  /\ call[c].pc = "idle"
  /\ \A d \in LikeCalls : d < c => call[d].pc # "idle"
  /\ i \in 1..Len(filteredPosts)
  /\ call' = [call EXCEPT ![c] =
       [IdleCall EXCEPT !.pc = "getUser",
                        !.postId = filteredPosts[i].id,
                        !.currentlyLiked = (filteredPosts[i].isLiked = "true"),
                        !.posts = posts,
                        !.searchQuery = searchQuery]]
  /\ UNCHANGED <<dbLikes, dbEdges, session, posts, filteredPosts, searchQuery,
                 loading, refreshing, fetch, other>>
  /\ UNCHANGED beyondHome

\* getUser resolves: either the not-logged-in return, or the optimistic
\* update (setPosts, setFilteredPosts, then the search effect because posts
\* changed) and the like-edge request is issued
LikeGetUser(c) ==
  /\ call[c].pc = "getUser"
  /\ LET me == call[c]
         user == session
         updatedPosts == OptimisticPosts(me.posts, me.postId, me.currentlyLiked)
     IN IF ViewerMissing(user)
          THEN /\ call' = [call EXCEPT ![c] = NotLoggedIn(me)]
               /\ UNCHANGED <<posts, filteredPosts>>
          ELSE /\ posts' = updatedPosts
               /\ filteredPosts' =
                    SearchEffect(FilterPosts(updatedPosts, me.searchQuery),
                                 updatedPosts, searchQuery)
               /\ call' = [call EXCEPT ![c] =
                    [me EXCEPT !.pc = "edge", !.user = user, !.optimistic = TRUE,
                               !.issued = <<"edge">>, !.posts = << >>,
                               !.searchQuery = << >>]]
  /\ UNCHANGED <<events, dbLikes, dbEdges, session, searchQuery, loading, refreshing,
                 fetch, other>>
  /\ UNCHANGED beyondHome

\* catch (error): console.error and fetchPosts(), which sets loading
Catch(c, step) ==
  /\ call' = [call EXCEPT ![c] = CatchClause(Throw(call[c], step))]
  /\ fetch' = [fetch EXCEPT ![<<"recover", c>>] = RecoveryFetch(step)]
  /\ loading' = (loading \/ RecoveryFetch(step).pc # "idle")

\* the delete / insert on post_likes resolves
LikeEdge(c, ok) ==
  /\ call[c].pc = "edge"
  /\ IF ok
       THEN /\ dbEdges' = EdgeMutation(dbEdges, call[c].user, call[c].postId,
                                       call[c].currentlyLiked)
            /\ call' = [call EXCEPT ![c].pc = "read", ![c].issued = Append(@, "read")]
            /\ UNCHANGED <<fetch, loading>>
       ELSE /\ Catch(c, "edge")
            /\ UNCHANGED dbEdges
  /\ UNCHANGED <<events, dbLikes, session, posts, filteredPosts, searchQuery, refreshing, other>>
  /\ UNCHANGED beyondHome

\* the select('likes') of the post resolves; newLikeCount is computed and the
\* update is issued
LikeRead(c, ok) ==
  /\ call[c].pc = "read"
  /\ IF ok
       THEN /\ call' = [call EXCEPT ![c].pc = "write",
                                    ![c].read = dbLikes[call[c].postId],
                                    ![c].issued = Append(@, "write")]
            /\ UNCHANGED <<fetch, loading>>
       ELSE Catch(c, "read")
  /\ UNCHANGED <<events, dbLikes, dbEdges, session, posts, filteredPosts, searchQuery,
                 refreshing, other>>
  /\ UNCHANGED beyondHome

\* the update({ likes: newLikeCount }) resolves
LikeWrite(c, ok) ==
  /\ call[c].pc = "write"
  /\ IF ok
       THEN /\ dbLikes' = [dbLikes EXCEPT ![call[c].postId] =
                 WriteBack(@, call[c].read, call[c].currentlyLiked)]
            /\ call' = [call EXCEPT ![c].pc = "done"]
            /\ UNCHANGED <<fetch, loading>>
       ELSE /\ Catch(c, "write")
            /\ UNCHANGED dbLikes
  /\ UNCHANGED <<events, dbEdges, session, posts, filteredPosts, searchQuery, refreshing, other>>
  /\ UNCHANGED beyondHome

\* ------------------------------------------------ fetchPosts and onRefresh

IsRefresh(f) == f[1] = "refresh"

\* finally { setLoading(false) }, and onRefresh's setRefreshing(false) after
\* its awaited fetchPosts
FetchFinally(f) ==
  /\ loading' = FALSE
  /\ refreshing' = IF IsRefresh(f) THEN FALSE ELSE refreshing

\* setPosts(postsWithLikeStatus); setFilteredPosts(postsWithLikeStatus); the
\* search effect then runs because posts changed
FetchCommit(f, postsWithLikeStatus) ==
  /\ posts' = postsWithLikeStatus
  /\ filteredPosts' = SearchEffect(postsWithLikeStatus, postsWithLikeStatus, searchQuery)
  /\ fetch' = [fetch EXCEPT ![f] = [IdleFetch EXCEPT !.pc = "done"]]
  /\ FetchFinally(f)

\* pull to refresh on the FlatList (rendered when filteredPosts is not empty):
\* setRefreshing(true), then fetchPosts up to its first await
OnRefresh(i) ==
  /\ events < MaxEvents
  /\ events' = events + 1
  /\ ListVisible
  /\ filteredPosts # << >>
  /\ ~refreshing
  /\ fetch[<<"refresh", i>>].pc = "idle"
  /\ \A j \in 1..MaxRefreshes : j < i => fetch[<<"refresh", j>>].pc # "idle"
  /\ refreshing' = TRUE
  /\ loading' = TRUE
  /\ fetch' = [fetch EXCEPT ![<<"refresh", i>>] = StartedFetch]
  /\ UNCHANGED <<dbLikes, dbEdges, session, posts, filteredPosts, searchQuery, call, other>>
  /\ UNCHANGED beyondHome

\* getUser resolves and the posts query is issued
FetchGetUser(f) ==
  /\ fetch[f].pc = "getUser"
  /\ fetch' = [fetch EXCEPT ![f].pc = "select", ![f].user = session]
  /\ UNCHANGED <<events, dbLikes, dbEdges, session, posts, filteredPosts, searchQuery,
                 loading, refreshing, call, other>>
  /\ UNCHANGED beyondHome

\* the posts query resolves: an error is thrown to the catch clause; without
\* a viewer the rows are installed as they are; with one the post_likes query
\* is issued
FetchSelect(f, ok) ==
  /\ fetch[f].pc = "select"
  /\ IF ~ok
       THEN /\ fetch' = [fetch EXCEPT ![f] = [IdleFetch EXCEPT !.pc = "done"]]
            /\ FetchFinally(f)
            /\ UNCHANGED <<posts, filteredPosts>>
       ELSE IF fetch[f].user = NoUser
         THEN FetchCommit(f, SelectPosts(dbLikes))
         ELSE /\ fetch' = [fetch EXCEPT ![f].pc = "likes", ![f].data = SelectPosts(dbLikes)]
              /\ UNCHANGED <<posts, filteredPosts, loading, refreshing>>
  /\ UNCHANGED <<events, dbLikes, dbEdges, session, searchQuery, call, other>>
  /\ UNCHANGED beyondHome

\* the post_likes query resolves: on likesError the rows are installed without
\* isLiked
FetchLikes(f, ok) ==
  /\ fetch[f].pc = "likes"
  /\ IF ok
       THEN FetchCommit(f, WithLikeStatus(fetch[f].data, dbEdges, fetch[f].user))
       ELSE FetchCommit(f, fetch[f].data)
  /\ UNCHANGED <<events, dbLikes, dbEdges, session, searchQuery, call, other>>
  /\ UNCHANGED beyondHome

\* ------------------------------------------------------------- the Searchbar

\* onChangeText={setSearchQuery}, then the search effect
SetSearchQuery(q) ==
  /\ events < MaxEvents
  /\ events' = events + 1
  /\ ListVisible
  /\ q # searchQuery
  /\ searchQuery' = q
  /\ filteredPosts' = FilterPosts(posts, q)
  /\ UNCHANGED <<dbLikes, dbEdges, session, posts, loading, refreshing, call, fetch, other>>
  /\ UNCHANGED beyondHome

\* ------------------------------------------------------------ environment

\* the session ends (sign-out elsewhere, an expired or revoked token)
SessionLost ==
  /\ events < MaxEvents
  /\ events' = events + 1
  /\ session # NoUser
  /\ session' = NoUser
  /\ UNCHANGED <<dbLikes, dbEdges, posts, filteredPosts, searchQuery, loading,
                 refreshing, call, fetch, other>>
  /\ UNCHANGED beyondHome

\* the second viewer presses like on their device, whose list shows their
\* like edge as the backend has it; the like-edge request is issued
OtherPress(o, p) ==
  /\ events < MaxEvents
  /\ events' = events + 1
  /\ other[o].pc = "idle"
  /\ \A d \in OtherCalls : d < o => other[d].pc # "idle"
  /\ other' = [other EXCEPT ![o] =
       [IdleOther EXCEPT !.pc = "edge", !.postId = p,
                         !.currentlyLiked = (<<p, Other>> \in dbEdges)]]
  /\ UNCHANGED <<dbLikes, dbEdges, session, posts, filteredPosts, searchQuery,
                 loading, refreshing, call, fetch>>
  /\ UNCHANGED beyondHome

\* a failed step ends the second viewer's toggle (its recovery refetch only
\* reads, on the other device)
OtherFailed(o, step) ==
  other' = [other EXCEPT ![o] =
    [IdleOther EXCEPT !.pc = AfterFailure(step), !.failed = TRUE]]

OtherEdge(o, ok) ==
  /\ other[o].pc = "edge"
  /\ IF ok
       THEN /\ dbEdges' = EdgeMutation(dbEdges, Other, other[o].postId,
                                       other[o].currentlyLiked)
            /\ other' = [other EXCEPT ![o].pc = "read"]
       ELSE /\ OtherFailed(o, "edge")
            /\ UNCHANGED dbEdges
  /\ UNCHANGED <<events, dbLikes, session, posts, filteredPosts, searchQuery, loading,
                 refreshing, call, fetch>>
  /\ UNCHANGED beyondHome

OtherRead(o, ok) ==
  /\ other[o].pc = "read"
  /\ IF ok
       THEN other' = [other EXCEPT ![o].pc = "write",
                                   ![o].read = dbLikes[other[o].postId]]
       ELSE OtherFailed(o, "read")
  /\ UNCHANGED <<events, dbLikes, dbEdges, session, posts, filteredPosts, searchQuery,
                 loading, refreshing, call, fetch>>
  /\ UNCHANGED beyondHome

OtherWrite(o, ok) ==
  /\ other[o].pc = "write"
  /\ IF ok
       THEN /\ dbLikes' = [dbLikes EXCEPT ![other[o].postId] =
                 WriteBack(@, other[o].read, other[o].currentlyLiked)]
            /\ other' = [other EXCEPT ![o].pc = "done"]
       ELSE /\ OtherFailed(o, "write")
            /\ UNCHANGED dbLikes
  /\ UNCHANGED <<events, dbEdges, session, posts, filteredPosts, searchQuery, loading,
                 refreshing, call, fetch>>
  /\ UNCHANGED beyondHome

\* ------------------------------------------------------------ specification

Next ==
  \/ \E c \in LikeCalls, i \in 1..Len(PostOrder) : PressLike(c, i)
  \/ \E c \in LikeCalls : LikeGetUser(c)
  \/ \E c \in LikeCalls, ok \in BOOLEAN : LikeEdge(c, ok)
  \/ \E c \in LikeCalls, ok \in BOOLEAN : LikeRead(c, ok)
  \/ \E c \in LikeCalls, ok \in BOOLEAN : LikeWrite(c, ok)
  \/ \E i \in 1..MaxRefreshes : OnRefresh(i)
  \/ \E f \in Fetches : FetchGetUser(f)
  \/ \E f \in Fetches, ok \in BOOLEAN : FetchSelect(f, ok)
  \/ \E f \in Fetches, ok \in BOOLEAN : FetchLikes(f, ok)
  \/ \E q \in Queries : SetSearchQuery(q)
  \/ SessionLost
  \/ \E o \in OtherCalls, p \in OtherPosts : OtherPress(o, p)
  \/ \E o \in OtherCalls, ok \in BOOLEAN : OtherEdge(o, ok)
  \/ \E o \in OtherCalls, ok \in BOOLEAN : OtherRead(o, ok)
  \/ \E o \in OtherCalls, ok \in BOOLEAN : OtherWrite(o, ok)

Spec == Init /\ [][Next]_vars

\* ------------------------------------------------------------- like toggle

\* the step in which call c applies its optimistic update
OptimisticStep(c) == call[c].pc = "getUser" /\ call'[c].pc = "edge"

\* a remote call issued by call c resolves in this step
Resolves(c) ==
  /\ call[c].pc \in {"getUser", "edge", "read", "write"}
  /\ call'[c].pc # call[c].pc

LikedStr(b) == IF b THEN "true" ELSE "false"

\* the post with this id in a post list
PostIn(ps, id) == ps[CHOOSE i \in 1..Len(ps) : ps[i].id = id]

\* the local copy of post id shows the backend's count and the backend's like
\* edge of the viewer
InSync(id, viewer) ==
  /\ \E i \in 1..Len(posts) : posts[i].id = id
  /\ PostIn(posts, id).likes = dbLikes[id]
  /\ PostIn(posts, id).isLiked = LikedStr(<<id, viewer>> \in dbEdges)

\* C1: the optimistic step changes exactly the targeted post of the local
\* list: its likes by +1 (currentlyLiked false) or -1 (currentlyLiked true),
\* its isLiked to the negation of currentlyLiked; every other post and every
\* other field stays as it was in local view state.
C1_OptimisticStepChangesOnlyTarget ==
  [][\A c \in LikeCalls : OptimisticStep(c) =>
       /\ Len(posts') = Len(posts)
       /\ \A i \in 1..Len(posts) :
            posts'[i] =
              IF posts[i].id = call[c].postId
                THEN [id |-> posts[i].id,
                      likes |-> IF call[c].currentlyLiked
                                  THEN posts[i].likes - 1 ELSE posts[i].likes + 1,
                      isLiked |-> LikedStr(~call[c].currentlyLiked)]
                ELSE posts[i]]_vars

\* C2: for an authenticated viewer, every remote call issued by handleLike
\* resolves only after the optimistic state of that toggle has been applied.
C2_OptimisticBeforeAnyRoundTrip ==
  [][\A c \in LikeCalls :
       (Resolves(c) /\ session # NoUser) => call[c].optimistic]_vars

\* the fetchPosts call c's catch clause starts
Recovery(c) == <<"recover", c>>

\* the recovery refetch of call c finishes in this step
RecoveryFinishes(c) ==
  /\ fetch[Recovery(c)].pc \in {"getUser", "select", "likes"}
  /\ fetch'[Recovery(c)].pc = "done"

C4_FailureReportedAndRefetched ==
  \A c \in LikeCalls :
    call[c].failed # "none" =>
      /\ call[c].report = LikeErrorMsg
      /\ fetch[Recovery(c)].pc # "idle"

\* C4 witness: the count write-back, the last remote step, has failed and the
\* refetch has been started.
C4_Witness ==
  \E c \in LikeCalls :
    /\ call[c].failed = "write"
    /\ call[c].report = LikeErrorMsg
    /\ fetch[Recovery(c)].pc # "idle"

\* the count write-back of call c succeeds in this step
WriteBackStep(c) ==
  /\ call[c].pc = "write"
  /\ call'[c].pc = "done"
  /\ call'[c].failed = "none"

\* C5 (as claimed): the count written back is the freshly read count plus 1
\* when toggling on and minus 1 when toggling off, for every read value.
C5_WriteBackIsReadPlusMinusOne ==
  [][\A c \in LikeCalls : WriteBackStep(c) =>
       dbLikes'[call[c].postId] =
         IF call[c].currentlyLiked THEN call[c].read - 1 ELSE call[c].read + 1]_vars

\* C5 (amended): the count written back is the freshly read count plus 1 when
\* toggling on; when toggling off it is the read count minus 1, except that a
\* read count of 0 is written back as 0; the local optimistic count plays no
\* part.
C5_WriteBackFromFreshRead ==
  [][\A c \in LikeCalls : WriteBackStep(c) =>
       dbLikes'[call[c].postId] =
         IF call[c].currentlyLiked
           THEN (IF call[c].read = 0 THEN 0 ELSE call[c].read - 1)
           ELSE call[c].read + 1]_vars

\* C5 witness: a toggle-off that read a count of 0 has written its count back.
C5_Witness ==
  \E c \in LikeCalls :
    /\ call[c].pc = "done"
    /\ call[c].optimistic
    /\ call[c].failed = "none"
    /\ call[c].currentlyLiked
    /\ call[c].read = 0

StepOrder == <<"edge", "read", "write">>

\* C6: the remote steps of a toggle are issued in the order edge, read,
\* write, one at a time, each after the one before it has succeeded; a failed
\* step is the last one issued, and no step is issued twice.
C6_StepsInOrderNoRetry ==
  \A c \in LikeCalls :
    /\ Len(call[c].issued) <= Len(StepOrder)
    /\ call[c].issued = SubSeq(StepOrder, 1, Len(call[c].issued))
    /\ call[c].pc \in {"edge", "read", "write"} =>
         /\ call[c].failed = "none"
         /\ call[c].issued # << >>
         /\ call[c].issued[Len(call[c].issued)] = call[c].pc
    /\ call[c].failed # "none" =>
         /\ call[c].pc = "done"
         /\ call[c].issued # << >>
         /\ call[c].issued[Len(call[c].issued)] = call[c].failed
    /\ (call[c].pc = "done" /\ call[c].optimistic /\ call[c].failed = "none") =>
         call[c].issued = StepOrder

\* C6 witness: the count re-read failed after the like-edge step had
\* succeeded, and the write-back was never issued.
C6_Witness ==
  \E c \in LikeCalls :
    /\ call[c].failed = "read"
    /\ call[c].pc = "done"
    /\ call[c].issued = <<"edge", "read">>

\* C7: when getUser resolves to no viewer, handleLike ends as a reported
\* no-op: posts and filteredPosts keep their values, the backend is not
\* touched, no remote step is issued, no refetch is started, and the missing
\* viewer is reported.
C7_NoViewerIsReportedNoOp ==
  [][\A c \in LikeCalls :
       (call[c].pc = "getUser" /\ call'[c].pc # "getUser" /\ session = NoUser) =>
         /\ posts' = posts
         /\ filteredPosts' = filteredPosts
         /\ dbEdges' = dbEdges
         /\ dbLikes' = dbLikes
         /\ fetch' = fetch
         /\ call'[c].pc = "done"
         /\ call'[c].issued = << >>
         /\ ~call'[c].optimistic
         /\ call'[c].report = NotLoggedInMsg]_vars

\* C7 witness: a like press on a rendered post ended with the missing viewer
\* reported.
C7_Witness ==
  \E c \in LikeCalls :
    /\ call[c].pc = "done"
    /\ call[c].report = NotLoggedInMsg
    /\ posts # << >>
    /\ session = NoUser

Quiescent ==
  /\ \A c \in LikeCalls : call[c].pc \in {"idle", "done"}
  /\ \A f \in Fetches : fetch[f].pc \in {"idle", "done"}
  /\ \A o \in OtherCalls : other[o].pc \in {"idle", "done"}

SoleSuccessfulToggle(c) ==
  /\ call[c].pc = "done"
  /\ call[c].optimistic
  /\ call[c].failed = "none"
  /\ \A d \in LikeCalls \ {c} : call[d].pc = "idle"
  /\ \A f \in Fetches : IsRefresh(f) => fetch[f].pc = "idle"
  /\ \A o \in OtherCalls : other[o].pc = "idle"

TwoLikersDone(c, o) ==
  /\ call[c].pc = "done" /\ call[c].optimistic /\ call[c].failed = "none"
  /\ ~call[c].currentlyLiked
  /\ other[o].pc = "done" /\ ~other[o].failed
  /\ ~other[o].currentlyLiked
  /\ other[o].postId = call[c].postId
  /\ \A d \in LikeCalls \ {c} : call[d].pc = "idle"
  /\ \A d \in OtherCalls \ {o} : other[d].pc = "idle"

Max(a, b) == IF a >= b THEN a ELSE b

\* C10: the two write-backs are blind: after two viewers have liked the same
\* post, the stored count is one more than the larger of the two counts they
\* read, so when both read the same count (each before the other wrote) one
\* of the two likes is missing from the stored count.
C10_LaterWriteBackOverwrites ==
  \A c \in LikeCalls, o \in OtherCalls :
    TwoLikersDone(c, o) =>
      dbLikes[call[c].postId] = Max(call[c].read, other[o].read) + 1

\* C10 witness: the lost update: both viewers' like edges are stored, both
\* read the same count n, and the stored count is n + 1 and not n + 2.
C10_Witness ==
  \E c \in LikeCalls, o \in OtherCalls :
    /\ TwoLikersDone(c, o)
    /\ call[c].read = other[o].read
    /\ {<<call[c].postId, Me>>, <<call[c].postId, Other>>} \subseteq dbEdges
    /\ dbLikes[call[c].postId] = call[c].read + 1

\* ------------------------------------------------------------ double counts

\* only this device's viewer has toggled likes: the second viewer has made no
\* toggle, so each stored count without the viewer's like is 0
OnlyOneViewer == \A o \in OtherCalls : other[o].pc = "idle"

Abs(n) == IF n < 0 THEN 0 - n ELSE n

\* C11: one viewer's likes are never double counted: while only
\* this viewer toggles, the stored like count of a post is never more than 1
\* above its value without the viewer's like (0), and the local like count
\* of a post is never more than 1 away from that value.
C11_NoDoubleCount ==
  OnlyOneViewer =>
    /\ \A p \in PostIds : dbLikes[p] <= 1
    /\ \A i \in 1..Len(posts) : Abs(posts[i].likes) <= 1

\* ------------------------------------------------------------- like counts

\* C12: no like count is negative, neither a stored one nor one held in local
\* view state (posts and the displayed filteredPosts).
C12_LikeCountsNonNegative ==
  /\ \A p \in PostIds : dbLikes[p] >= 0
  /\ \A i \in 1..Len(posts) : posts[i].likes >= 0
  /\ \A i \in 1..Len(filteredPosts) : filteredPosts[i].likes >= 0

\* ------------------------------------------------------------ EventsScreen

\* the Home screen is not open: constructed values, no handler started
HomeNotMounted ==
  /\ dbLikes = [p \in PostIds |-> 0]
  /\ dbEdges = {}
  /\ posts = << >>
  /\ filteredPosts = << >>
  /\ searchQuery = << >>
  /\ loading = TRUE
  /\ refreshing = FALSE
  /\ call = [c \in LikeCalls |-> IdleCall]
  /\ fetch = [f \in Fetches |-> IdleFetch]
  /\ other = [o \in OtherCalls |-> IdleOther]

\* the state the Events screen's handlers neither read nor write
beyondEvents == <<homeVars, profileVars, profileMore, laterVars>>

\* The Events screen constructed and mounted over a backend holding one
\* event: the filter effect has run on the empty list and the mount effect
\* has called fetchEvents.
EventsInit ==
  /\ session \in {Me, NoUser}
  /\ clock \in TicksPerDay..(2 * TicksPerDay - 1)
  /\ dbMember \in {MemberRow({}), MemberRow({Org})}
  /\ \E d \in EventDates, membersOnly \in BOOLEAN :
       dbEventRows = <<EventRow("e1", d, membersOnly)>>
  /\ eventsScreen = ConstructedEventsScreen(clock)
  /\ eventsFetch = [f \in EventFetches |->
       IF f = <<"mount", 1>> THEN StartedEventsFetch("upcoming") ELSE IdleEventsFetch]
  /\ events = 0
  /\ HomeNotMounted
  /\ ProfileNotMounted
  /\ LaterNotMounted

\* the category buttons and the list are rendered unless  loading && !refreshing
EventsListVisible == ~(eventsScreen.loading /\ ~eventsScreen.refreshing)

\* finally { setLoading(false) }, and onRefresh's setRefreshing(false) after
\* its awaited fetchEvents
FetchEventsFinally(scr, f) ==
  [scr EXCEPT !.loading = FALSE,
              !.refreshing = IF IsRefresh(f) THEN FALSE ELSE @]

\* getUser resolves: with a user the members lookup is issued, without one
\* the events query
FetchEventsGetUser(f) ==
  /\ eventsFetch[f].pc = "getUser"
  /\ eventsFetch' = [eventsFetch EXCEPT
       ![f].pc = IF session = NoUser THEN "select" ELSE "members"]
  /\ UNCHANGED <<events, session, clock, dbMember, dbEventRows, eventsScreen, beyondEvents>>

\* the members lookup resolves (memberOrgIds stays [] on an error); the
\* events query is issued
FetchEventsMembers(f, ok) ==
  /\ eventsFetch[f].pc = "members"
  /\ eventsFetch' = [eventsFetch EXCEPT
       ![f].pc = "select",
       ![f].memberOrgIds = IF ok /\ dbMember # NoRow
                             THEN dbMember.organization_ids ELSE {}]
  /\ UNCHANGED <<events, session, clock, dbMember, dbEventRows, eventsScreen, beyondEvents>>

\* the events query resolves: an error goes to the catch clause; otherwise
\* setEvents(visibleEvents), filterEventsByCategory(visibleEvents, category)
\* with the category the function closed over, and then the filter effect
\* because events changed
FetchEventsSelect(f, ok) ==
  /\ eventsFetch[f].pc = "select"
  /\ IF ~ok
       THEN /\ eventsScreen' = FetchEventsFinally(eventsScreen, f)
            /\ eventsFetch' = [eventsFetch EXCEPT ![f] =
                 [IdleEventsFetch EXCEPT !.pc = "failed"]]
       ELSE LET visibleEvents == VisibleEvents(dbEventRows, eventsFetch[f].memberOrgIds)
                shown == filterEventsByCategory(visibleEvents, eventsFetch[f].category, clock)
            IN /\ eventsScreen' = FetchEventsFinally(
                    [eventsScreen EXCEPT
                       !.events = visibleEvents,
                       !.filteredEvents =
                          FilterEffect(shown, visibleEvents, eventsScreen.category,
                                       clock, "events"),
                       !.filteredAt = clock], f)
               /\ eventsFetch' = [eventsFetch EXCEPT ![f] =
                    [IdleEventsFetch EXCEPT !.pc = "done",
                                            !.category = eventsFetch[f].category,
                                            !.sawCategory = eventsScreen.category]]
  /\ UNCHANGED <<events, session, clock, dbMember, dbEventRows, beyondEvents>>

\* pull to refresh on the FlatList (rendered when filteredEvents is not
\* empty): setRefreshing(true), then fetchEvents up to its first await
EventsOnRefresh(i) ==
  /\ events < MaxEvents
  /\ events' = events + 1
  /\ EventsListVisible
  /\ eventsScreen.filteredEvents # << >>
  /\ ~eventsScreen.refreshing
  /\ eventsFetch[<<"refresh", i>>].pc = "idle"
  /\ \A j \in 1..MaxRefreshes : j < i => eventsFetch[<<"refresh", j>>].pc # "idle"
  /\ eventsScreen' = [eventsScreen EXCEPT !.refreshing = TRUE, !.loading = TRUE]
  /\ eventsFetch' = [eventsFetch EXCEPT
       ![<<"refresh", i>>] = StartedEventsFetch(eventsScreen.category)]
  /\ UNCHANGED <<session, clock, dbMember, dbEventRows, beyondEvents>>

\* onValueChange={value => setCategory(value)}, then the filter effect
\* because category changed
SetCategory(value) ==
  /\ events < MaxEvents
  /\ events' = events + 1
  /\ EventsListVisible
  /\ value # eventsScreen.category
  /\ eventsScreen' = [eventsScreen EXCEPT
       !.category = value,
       !.filteredEvents =
          FilterEffect(eventsScreen.filteredEvents, eventsScreen.events, value,
                       clock, "category"),
       !.filteredAt = clock]
  /\ UNCHANGED <<session, clock, dbMember, dbEventRows, eventsFetch, beyondEvents>>

\* time passes
Tick ==
  /\ events < MaxEvents
  /\ events' = events + 1
  /\ clock + 1 \in Instants
  /\ clock' = clock + 1
  /\ UNCHANGED <<session, dbMember, eventsVars, beyondEvents>>

\* an officer posts a public event
EventPosted(d) ==
  /\ events < MaxEvents
  /\ events' = events + 1
  /\ \A i \in 1..Len(dbEventRows) : dbEventRows[i].id # "e2"
  /\ dbEventRows' = InsertByDate(dbEventRows, EventRow("e2", d, FALSE))
  /\ UNCHANGED <<session, clock, dbMember, eventsScreen, eventsFetch, beyondEvents>>

EventsNext ==
  \/ \E f \in EventFetches : FetchEventsGetUser(f)
  \/ \E f \in EventFetches, ok \in BOOLEAN : FetchEventsMembers(f, ok)
  \/ \E f \in EventFetches, ok \in BOOLEAN : FetchEventsSelect(f, ok)
  \/ \E i \in 1..MaxRefreshes : EventsOnRefresh(i)
  \/ \E value \in EventCategories : SetCategory(value)
  \/ Tick
  \/ \E d \in PostedDates : EventPosted(d)

EventsSpec == EventsInit /\ [][EventsNext]_vars

\* --------------------------------------------------------- event categories

\* the categories whose predicate accepts the event at this instant
CategoriesOf(event, now) ==
  {c \in EventCategories : InCategory(event, c, now)}

\* C13: at every instant, each event of the list is accepted by exactly one
\* of the three category predicates of filterEventsByCategory: 'upcoming',
\* 'ongoing' and 'past' are pairwise disjoint and cover every event.
C13_ExactlyOneCategory ==
  \A i \in 1..Len(eventsScreen.events) :
    Cardinality(CategoriesOf(eventsScreen.events[i], clock)) = 1

\* C14: with 'past' selected, the displayed list is exactly the events whose
\* timestamp is strictly before the reference instant of the evaluation and
\* not on its calendar day: an event earlier on that day is not returned.
C14_PastExcludesReferenceDay ==
  eventsScreen.category = "past" =>
    eventsScreen.filteredEvents =
      SelectSeq(eventsScreen.events,
                LAMBDA event :
                  /\ Date(event.event_date) < eventsScreen.filteredAt
                  /\ startOfDay(Date(event.event_date)) #
                       startOfDay(eventsScreen.filteredAt))

\* C15 (as claimed): in every state (the effects have run), the displayed
\* list is what filterEventsByCategory gives for the current event list and
\* the selected category.
C15_ShowsCurrentFilter ==
  eventsScreen.filteredEvents =
    filterEventsByCategory(eventsScreen.events, eventsScreen.category, clock)

\* C15 (amended): the displayed list is what filterEventsByCategory gave for
\* the current event list and the selected category at the instant of its
\* last evaluation; it is never the result for a previously selected
\* category or a previous event list.
C15_ShowsFilterAsLastEvaluated ==
  eventsScreen.filteredEvents =
    filterEventsByCategory(eventsScreen.events, eventsScreen.category,
                           eventsScreen.filteredAt)

\* C15 witness: the category was changed while a refresh was in flight; the
\* fetch then installed the list for the category it had closed over, and
\* the displayed list is the one for the selected category, which differs.
C15_Witness ==
  \E f \in EventFetches :
    /\ eventsFetch[f].pc = "done"
    /\ eventsFetch[f].category # eventsFetch[f].sawCategory
    /\ eventsScreen.category = eventsFetch[f].sawCategory
    /\ eventsScreen.filteredEvents =
         filterEventsByCategory(eventsScreen.events, eventsScreen.category,
                                eventsScreen.filteredAt)
    /\ eventsScreen.filteredEvents #
         filterEventsByCategory(eventsScreen.events, eventsFetch[f].category,
                                eventsScreen.filteredAt)

\* ------------------------------------------------------------ search filter

\* the post lists the filter is exercised on: the posts in any number and
\* any order, each at most once
SearchLists ==
  {ids \in UNION {[1..n -> SearchPostIds] : n \in 0..Cardinality(SearchPostIds)} :
     \A i, j \in DOMAIN ids : i # j => ids[i] # ids[j]}

PostList(ids) ==
  [i \in 1..Len(ids) |-> [id |-> ids[i], likes |-> 0, isLiked |-> "false"]]

\* The Home screen after its mount fetch has installed a post list, for each
\* of the lists: the list is shown and the Searchbar is empty.
SearchInit ==
  /\ \E ids \in SearchLists : posts = PostList(ids)
  /\ filteredPosts = posts
  /\ searchQuery = << >>
  /\ loading = FALSE
  /\ refreshing = FALSE
  /\ dbLikes = [p \in PostIds |-> 0]
  /\ dbEdges = {}
  /\ session = Me
  /\ call = [c \in LikeCalls |-> IdleCall]
  /\ fetch = [f \in Fetches |->
       IF f = <<"mount", 1>> THEN [IdleFetch EXCEPT !.pc = "done"] ELSE IdleFetch]
  /\ other = [o \in OtherCalls |-> IdleOther]
  /\ events = 0
  /\ clock = TicksPerDay
  /\ dbMember = MemberRow({})
  /\ EventsNotMounted
  /\ ProfileNotMounted
  /\ LaterNotMounted

SearchNext == \E q \in SearchQueries : SetSearchQuery(q)

SearchSpec == SearchInit /\ [][SearchNext]_vars

\* C16: with an empty query the displayed list is the post list itself: the
\* same items in the same order.
C16_EmptyQueryReturnsAll ==
  searchQuery = << >> => filteredPosts = posts

\* C16 witness: a query was typed and cleared again over a list of three
\* posts, and the three are displayed in their order.
C16_Witness ==
  /\ events = MaxEvents
  /\ searchQuery = << >>
  /\ Len(posts) = 3
  /\ filteredPosts = posts

\* text contains q somewhere, letters compared without regard to case
ContainsIgnoringCase(text, q) ==
  \E k \in 0..(Len(text) - Len(q)) :
    \A j \in 1..Len(q) : LowerChar(text[k + j]) = LowerChar(q[j])

\* the posts of ps whose title or body contains q, in their order
PostsContaining(ps, q) ==
  SelectSeq(ps, LAMBDA post :
    \/ ContainsIgnoringCase(PostTitle(post.id), q)
    \/ ContainsIgnoringCase(PostContent(post.id), q))

\* C17 (as claimed): for every query of length at least 1 the displayed list
\* is exactly the posts whose title or body contains the query, compared
\* case-insensitively, in their original order.
C17_NonEmptyQueryFilters ==
  Len(searchQuery) >= 1 => filteredPosts = PostsContaining(posts, searchQuery)

\* C17 (amended): for every query with a character other than white space
\* the displayed list is exactly the posts whose title or body contains the
\* query as typed (leading and trailing spaces included), compared
\* case-insensitively, in their original order; a query of white space only
\* displays the whole list.
C17_NonBlankQueryFilters ==
  IF trim(searchQuery) # << >>
    THEN filteredPosts = PostsContaining(posts, searchQuery)
    ELSE filteredPosts = posts

\* C17 witness: the query " a" displays the post titled " a" and not the
\* post titled "Ab", which contains "a" but not " a".
C17_Witness ==
  /\ events > 0
  /\ searchQuery = <<" ", "a">>
  /\ \E i \in 1..Len(posts) : posts[i].id = "p1"
  /\ Len(filteredPosts) = 1
  /\ filteredPosts[1].id = "p3"

\* C18: filtering the displayed list again by the same query leaves it as it
\* is.
C18_FilterIdempotent ==
  FilterPosts(filteredPosts, searchQuery) = filteredPosts

\* C18 witness: a query that removed a post and kept two, and filtering the
\* two again keeps both.
C18_Witness ==
  /\ events > 0
  /\ Len(filteredPosts) = 2
  /\ Len(posts) = 3
  /\ FilterPosts(filteredPosts, searchQuery) = filteredPosts

\* C19: in every state (the effects have run), the displayed list is the
\* search filter applied to the current post list and the current query, the
\* posts' current like count and like state included.
C19_DisplayedIsFilterOfPosts ==
  filteredPosts = FilterPosts(posts, searchQuery)

\* C19 witness: with a query that hides a post, a like toggle has applied its
\* optimistic update, and the displayed list is the filtered post list with
\* the toggled post's new count and like state.
C19_Witness ==
  \E c \in LikeCalls :
    /\ call[c].optimistic
    /\ ~call[c].currentlyLiked
    /\ trim(searchQuery) # << >>
    /\ Len(filteredPosts) < Len(posts)
    /\ filteredPosts = FilterPosts(posts, searchQuery)
    /\ \E i \in 1..Len(filteredPosts) :
         /\ filteredPosts[i].id = call[c].postId
         /\ filteredPosts[i].isLiked = "true"
         /\ filteredPosts[i] = PostIn(posts, call[c].postId)

\* ----------------------------------------------------------- ProfileScreen

UpdateFailedMsg == "Failed to update profile. Please try again."

FormFields == {"firstName", "lastName", "bio"}

\* the state the Profile screen's handlers neither read nor write
beyondProfile == <<homeVars, eventsVars, laterVars>>

\* The Profile screen constructed and mounted: the mount effect has called
\* fetchUserProfile, which runs up to its getUser.
ProfileInit ==
  /\ session \in {Me, NoUser}
  /\ clock = TicksPerDay
  /\ dbMember = MemberRow({})
  /\ profileScreen = ConstructedProfileScreen
  /\ profileFetch = [f \in ProfileFetches |->
       IF f = <<"mount", 1>> THEN [pc |-> "getUser"] ELSE IdleProfileFetch]
  /\ editCall = [c \in EditCalls |-> IdleEdit]
  /\ events = 0
  /\ ProfileMoreIdle
  /\ HomeNotMounted
  /\ EventsNotMounted
  /\ LaterNotMounted

\* the screen (and with it the buttons and the modal) is rendered unless loading
ProfileVisible == ~profileScreen.loading

\* member?.profile_picture_url, "" when there is none
PictureUrlOf(member) == IF member = NoRow THEN "" ELSE member.profile_picture_url

\* useEffect on [member?.profile_picture_url]: when the url has changed and
\* is set, downloadImage is called and runs up to its first await
PictureEffect(pic, before, after) ==
  IF PictureUrlOf(after) # PictureUrlOf(before) /\ PictureUrlOf(after) # ""
    THEN [pc |-> "download", path |-> PictureUrlOf(after)]
    ELSE pic

\* setMember(data), setEditForm({...}) from the row fetchUserProfile read
ShowMember(scr, data) ==
  [scr EXCEPT !.member = data,
              !.editForm = [firstName |-> data.first_name,
                            lastName |-> data.last_name,
                            bio |-> data.bio]]

\* fetchUserProfile's finally { setLoading(false) }; when handleEdit awaited
\* it, handleEdit's setEditing(false) follows
ProfileFetchFinally(scr, f) ==
  [scr EXCEPT !.loading = FALSE,
              !.editing = IF f[1] = "edit" THEN FALSE ELSE @]

\* the handleEdit invocation that awaited fetch f, if any, has finished
EditFinished(f) ==
  IF f[1] = "edit"
    THEN editCall' = [editCall EXCEPT ![f[2]].pc = "done"]
    ELSE UNCHANGED editCall

\* getUser resolves: 'No user found' is thrown to the catch clause, or the
\* members row is requested
ProfileFetchGetUser(f) ==
  /\ profileFetch[f].pc = "getUser"
  /\ IF session = NoUser
       THEN /\ profileFetch' = [profileFetch EXCEPT ![f].pc = "failed"]
            /\ profileScreen' = ProfileFetchFinally(profileScreen, f)
            /\ EditFinished(f)
       ELSE /\ profileFetch' = [profileFetch EXCEPT ![f].pc = "select"]
            /\ UNCHANGED <<profileScreen, editCall>>
  /\ UNCHANGED <<events, session, clock, dbMember, profileMore,
               beyondProfile>>

\* the members row query resolves
ProfileFetchSelect(f, ok) ==
  /\ profileFetch[f].pc = "select"
  /\ IF ok /\ dbMember # NoRow
       THEN /\ profileFetch' = [profileFetch EXCEPT ![f].pc = "done"]
            /\ profileScreen' =
                 ProfileFetchFinally(ShowMember(profileScreen, dbMember), f)
            /\ pictureCall' = PictureEffect(pictureCall, profileScreen.member, dbMember)
       ELSE /\ profileFetch' = [profileFetch EXCEPT ![f].pc = "failed"]
            /\ profileScreen' = ProfileFetchFinally(profileScreen, f)
            /\ UNCHANGED pictureCall
  /\ EditFinished(f)
  /\ UNCHANGED <<events, session, clock, dbMember, passwordCall, unhandled,
               dbPassword, beyondProfile>>

\* the Edit Profile button: setEditing(true)
OpenEdit ==
  /\ events < MaxProfileGestures
  /\ events' = events + 1
  /\ ProfileVisible
  /\ ~profileScreen.editing
  /\ profileScreen' = [profileScreen EXCEPT !.editing = TRUE]
  /\ UNCHANGED <<session, clock, dbMember, profileFetch, editCall, profileMore,
               beyondProfile>>

\* Cancel, or dismissing the modal: setEditing(false)
CloseEdit ==
  /\ events < MaxProfileGestures
  /\ events' = events + 1
  /\ ProfileVisible
  /\ profileScreen.editing
  /\ profileScreen' = [profileScreen EXCEPT !.editing = FALSE]
  /\ UNCHANGED <<session, clock, dbMember, profileFetch, editCall, profileMore,
               beyondProfile>>

\* onChangeText of one of the modal's inputs: setEditForm({...editForm, ...})
ChangeText(field, text) ==
  /\ events < MaxProfileGestures
  /\ events' = events + 1
  /\ ProfileVisible
  /\ profileScreen.editing
  /\ profileScreen.editForm[field] # text
  /\ profileScreen' = [profileScreen EXCEPT !.editForm[field] = text]
  /\ UNCHANGED <<session, clock, dbMember, profileFetch, editCall, profileMore,
               beyondProfile>>

\* the conditions under which handleEdit returns before its update:
\* if (!member) return
EditRejected(member, form) == member = NoRow

\* Save Changes: handleEdit up to its first await: the update of the members
\* row with the editForm values is issued
PressSave(c) ==
  /\ events < MaxProfileGestures
  /\ events' = events + 1
  /\ ProfileVisible
  /\ profileScreen.editing
  /\ editCall[c].pc = "idle"
  /\ \A d \in EditCalls : d < c => editCall[d].pc # "idle"
  /\ editCall' = [editCall EXCEPT ![c] =
       IF EditRejected(profileScreen.member, profileScreen.editForm)
         THEN [IdleEdit EXCEPT !.pc = "done", !.form = profileScreen.editForm,
                               !.before = dbMember]
         ELSE [IdleEdit EXCEPT !.pc = "update", !.form = profileScreen.editForm,
                               !.issued = <<"update">>, !.before = dbMember]]
  /\ UNCHANGED <<session, clock, dbMember, profileScreen, profileFetch, profileMore,
               beyondProfile>>

\* the row the update leaves in the members table
UpdatedMember(row, form, now) ==
  IF row = NoRow
    THEN row
    ELSE [row EXCEPT !.first_name = form.firstName, !.last_name = form.lastName,
                     !.bio = form.bio, !.updated_at = now]

\* the update resolves: on an error the catch clause alerts; otherwise
\* fetchUserProfile is called and runs up to its getUser
EditUpdate(c, ok) ==
  /\ editCall[c].pc = "update"
  /\ IF ok
       THEN /\ dbMember' = UpdatedMember(dbMember, editCall[c].form, clock)
            /\ editCall' = [editCall EXCEPT ![c].pc = "refetch",
                                            ![c].issued = Append(@, "getUser")]
            /\ profileFetch' = [profileFetch EXCEPT ![<<"edit", c>>].pc = "getUser"]
            /\ profileScreen' = [profileScreen EXCEPT !.loading = TRUE]
       ELSE /\ editCall' = [editCall EXCEPT ![c].pc = "done"]
            /\ profileScreen' = [profileScreen EXCEPT !.alert = UpdateFailedMsg]
            /\ UNCHANGED <<dbMember, profileFetch>>
  /\ UNCHANGED <<events, session, clock, profileMore,
               beyondProfile>>

\* how an awaited call of the storage client can end: with data, with
\* { error }, or by rejecting
RemoteOutcomes == {"ok", "error", "throws"}

\* downloadImage: the download resolves. With data the FileReader's onload
\* sets the picture; an { error } is thrown and, like a rejection, caught by
\* the catch clause, which issues createSignedUrl
DownloadImage(outcome) ==
  /\ pictureCall.pc = "download"
  /\ IF outcome = "ok"
       THEN /\ pictureCall' = [pictureCall EXCEPT !.pc = "done"]
            /\ profileScreen' = [profileScreen EXCEPT !.profilePicture = "data"]
       ELSE /\ pictureCall' = [pictureCall EXCEPT !.pc = "signedUrl"]
            /\ UNCHANGED profileScreen
  /\ UNCHANGED <<events, session, clock, dbMember, profileFetch, editCall,
               passwordCall, unhandled, dbPassword, beyondProfile>>

\* downloadImage's catch clause: createSignedUrl resolves. The await is
\* inside the catch clause and in no try block, so a rejection rejects
\* downloadImage's own promise, which the effect that called it drops
DownloadSignedUrl(outcome) ==
  /\ pictureCall.pc = "signedUrl"
  /\ pictureCall' = [pictureCall EXCEPT !.pc =
       IF outcome = "throws" THEN "rejected" ELSE "done"]
  /\ profileScreen' = [profileScreen EXCEPT !.profilePicture =
       IF outcome = "ok" THEN "signedUrl" ELSE @]
  /\ unhandled' = IF outcome = "throws"
                    THEN unhandled \cup {"downloadImage"}
                    ELSE unhandled
  /\ UNCHANGED <<events, session, clock, dbMember, profileFetch, editCall,
               passwordCall, dbPassword, beyondProfile>>

PasswordMismatchMsg == "Passwords do not match."
PasswordChangedMsg == "Password changed successfully."
PasswordFailedMsg == "Failed to change password. Please try again."

PasswordFields == {"newPassword", "confirmPassword"}

\* the Change Password button of the profile
OpenPasswordModal ==
  /\ events < MaxProfileGestures
  /\ events' = events + 1
  /\ ProfileVisible
  /\ ~profileScreen.changePasswordVisible
  /\ profileScreen' = [profileScreen EXCEPT !.changePasswordVisible = TRUE]
  /\ UNCHANGED <<session, clock, dbMember, profileFetch, editCall, profileMore,
               beyondProfile>>

\* the modal's Cancel button and onDismiss
ClosePasswordModal ==
  /\ events < MaxProfileGestures
  /\ events' = events + 1
  /\ ProfileVisible
  /\ profileScreen.changePasswordVisible
  /\ profileScreen' = [profileScreen EXCEPT !.changePasswordVisible = FALSE]
  /\ UNCHANGED <<session, clock, dbMember, profileFetch, editCall, profileMore,
               beyondProfile>>

\* onChangeText of the modal's two inputs
ChangePasswordText(field, text) ==
  /\ events < MaxProfileGestures
  /\ events' = events + 1
  /\ ProfileVisible
  /\ profileScreen.changePasswordVisible
  /\ profileScreen[field] # text
  /\ profileScreen' = [profileScreen EXCEPT ![field] = text]
  /\ UNCHANGED <<session, clock, dbMember, profileFetch, editCall, profileMore,
               beyondProfile>>

\* mutant: the comparison is missing
PasswordRejectedNever(newPassword, confirmPassword) == FALSE

\* handleChangePassword's validation
PasswordRejected(newPassword, confirmPassword) == newPassword # confirmPassword

\* The modal's Change button, enabled while no change is in flight:
\* handleChangePassword up to its first await, or to the return of its
\* validation
PressChange(c) ==
  /\ events < MaxProfileGestures
  /\ events' = events + 1
  /\ ProfileVisible
  /\ profileScreen.changePasswordVisible
  /\ ~profileScreen.changingPassword
  /\ passwordCall[c].pc = "idle"
  /\ \A d \in PasswordCalls : d < c => passwordCall[d].pc # "idle"
  /\ IF PasswordRejected(profileScreen.newPassword, profileScreen.confirmPassword)
       THEN /\ passwordCall' = [passwordCall EXCEPT ![c] =
                 [IdlePassword EXCEPT !.pc = "rejected",
                                      !.newPassword = profileScreen.newPassword]]
            /\ profileScreen' = [profileScreen EXCEPT !.alert = PasswordMismatchMsg]
       ELSE /\ passwordCall' = [passwordCall EXCEPT ![c] =
                 [IdlePassword EXCEPT !.pc = "updateUser",
                                      !.newPassword = profileScreen.newPassword,
                                      !.issued = <<"updateUser">>]]
            /\ profileScreen' = [profileScreen EXCEPT !.changingPassword = TRUE]
  /\ UNCHANGED <<session, clock, dbMember, profileFetch, editCall, pictureCall,
               unhandled, dbPassword, beyondProfile>>

\* auth.updateUser resolves: on success the password is stored, the modal
\* closed and its fields cleared; an error is thrown to the catch clause,
\* which alerts; finally clears changingPassword
PasswordUpdate(c, ok) ==
  /\ passwordCall[c].pc = "updateUser"
  /\ IF ok /\ session # NoUser
       THEN /\ dbPassword' = passwordCall[c].newPassword
            /\ passwordCall' = [passwordCall EXCEPT ![c].pc = "done"]
            /\ profileScreen' = [profileScreen EXCEPT
                 !.alert = PasswordChangedMsg,
                 !.changePasswordVisible = FALSE,
                 !.newPassword = "",
                 !.confirmPassword = "",
                 !.changingPassword = FALSE]
       ELSE /\ passwordCall' = [passwordCall EXCEPT ![c].pc = "failed"]
            /\ profileScreen' = [profileScreen EXCEPT
                 !.alert = PasswordFailedMsg,
                 !.changingPassword = FALSE]
            /\ UNCHANGED dbPassword
  /\ UNCHANGED <<events, session, clock, dbMember, profileFetch, editCall,
               pictureCall, unhandled, beyondProfile>>

ProfileNext ==
  \/ \E f \in ProfileFetches : ProfileFetchGetUser(f)
  \/ \E f \in ProfileFetches, ok \in BOOLEAN : ProfileFetchSelect(f, ok)
  \/ OpenEdit
  \/ CloseEdit
  \/ \E field \in FormFields, text \in Names : ChangeText(field, text)
  \/ \E c \in EditCalls : PressSave(c)
  \/ \E c \in EditCalls, ok \in BOOLEAN : EditUpdate(c, ok)
  \/ \E outcome \in RemoteOutcomes : DownloadImage(outcome)
  \/ \E outcome \in RemoteOutcomes : DownloadSignedUrl(outcome)
  \/ OpenPasswordModal
  \/ ClosePasswordModal
  \/ \E field \in PasswordFields, text \in Passwords : ChangePasswordText(field, text)
  \/ \E c \in PasswordCalls : PressChange(c)
  \/ \E c \in PasswordCalls, ok \in BOOLEAN : PasswordUpdate(c, ok)

ProfileSpec == ProfileInit /\ [][ProfileNext]_vars

\* C20: a submission whose first or last name is empty makes no network call
\* and leaves the stored member record as it was.
C20_EmptyNameRejectedBeforeNetwork ==
  \A c \in EditCalls :
    (editCall[c].pc # "idle"
       /\ (editCall[c].form.firstName = "" \/ editCall[c].form.lastName = "")) =>
      /\ editCall[c].issued = << >>
      /\ dbMember = editCall[c].before

\* --------------------------------------------------- toggles one by one

\* no like toggle of this device is in flight
NoToggleInFlight == \A c \in LikeCalls : call[c].pc \in {"idle", "done"}

\* The Home screen mounted by a logged-in viewer over a backend whose like
\* counts equal its like edges.
SequentialInit == Init /\ session = Me

\* no fetchPosts of this device is in flight
NoFetchInFlight == \A f \in Fetches : fetch[f].pc \in {"idle", "done"}

\* One viewer, no remote failure, and one operation after another: a like is
\* pressed, or the list pulled, only when the toggle and the fetch before it
\* have finished.
SequentialNext ==
  \/ \E c \in LikeCalls, i \in 1..Len(PostOrder) :
       NoToggleInFlight /\ NoFetchInFlight /\ PressLike(c, i)
  \/ \E c \in LikeCalls : LikeGetUser(c)
  \/ \E c \in LikeCalls : LikeEdge(c, TRUE)
  \/ \E c \in LikeCalls : LikeRead(c, TRUE)
  \/ \E c \in LikeCalls : LikeWrite(c, TRUE)
  \/ \E i \in 1..MaxRefreshes : NoToggleInFlight /\ OnRefresh(i)
  \/ \E f \in Fetches : FetchGetUser(f)
  \/ \E f \in Fetches : FetchSelect(f, TRUE)
  \/ \E f \in Fetches : FetchLikes(f, TRUE)
  \/ \E q \in Queries : SetSearchQuery(q)

SequentialSpec == SequentialInit /\ [][SequentialNext]_vars

\* calls c and d are two finished toggles of the same post, d after c, and
\* the only toggles of that post since c
ToggledTwice(c, d) ==
  /\ c < d
  /\ call[c].pc = "done" /\ call[c].optimistic
  /\ call[d].pc = "done" /\ call[d].optimistic
  /\ call[c].postId = call[d].postId
  /\ \A e \in LikeCalls :
       e > c /\ e # d /\ call[e].pc # "idle" => call[e].postId # call[c].postId

OptimisticOnTwoPosts(c, d) ==
  /\ call[c].pc = "edge"
  /\ call[d].pc = "edge"
  /\ call[c].postId # call[d].postId
  /\ \A f \in Fetches : f # <<"mount", 1>> => fetch[f].pc = "idle"

\* C28: when two toggles on different posts have applied their optimistic
\* updates, both are present in local view state: each post shows the like
\* state its toggle set.
C28_BothOptimisticUpdatesPresent ==
  \A c, d \in LikeCalls :
    OptimisticOnTwoPosts(c, d) =>
      /\ PostIn(posts, call[c].postId).isLiked = LikedStr(~call[c].currentlyLiked)
      /\ PostIn(posts, call[d].postId).isLiked = LikedStr(~call[d].currentlyLiked)

\* ------------------------------------------------------ members-only rows

\* the organizations the current viewer belongs to, none when nobody is
\* logged in
ViewerOrgs == IF session = Me THEN dbMember.organization_ids ELSE {}

\* C22: a members-only post is in the list the Home screen displays only for
\* a viewer whose membership includes an organization of the post.
C22_MembersOnlyPostsHidden ==
  ListVisible =>
    \A i \in 1..Len(filteredPosts) :
      is_members_only(filteredPosts[i].id) =>
        organization_ids(filteredPosts[i].id) \cap ViewerOrgs # {}

\* ------------------------------------------------- failures and resubmission

\* C23: no remote-call failure escapes the function that issued the call:
\* no async function's promise is rejected with nothing to handle it.
C23_NoUnhandledRejection == unhandled = {}

\* a handleEdit invocation has been started and has not returned
EditInFlight(c) == editCall[c].pc \in {"update", "refetch"}

\* C24: while a profile save is in flight no second one can be started: at
\* most one handleEdit invocation is in flight.
C24_NoSecondSaveInFlight ==
  \A c, d \in EditCalls : EditInFlight(c) /\ EditInFlight(d) => c = d

\* ------------------------------------------------------ ProfileSetupScreen

NamesRequiredMsg == "First name and last name are required"
NoUserFoundMsg == "No user found"
RemoteErrorMsg == "remote error"
UploadFailedMsg == "Failed to upload profile picture. Please try again."

\* the uri the image picker returns
PickedImage == "file://a"

\* the state the ProfileSetup screen's handlers neither read nor write
beyondSetup ==
  <<homeVars, eventsVars, profileVars, profileMore, clock, loginVars, orgsVars>>

\* The ProfileSetup screen constructed and mounted after a sign-up: no
\* members row yet, the form empty, and the mount effect has called
\* checkSession.
SetupInit ==
  /\ session \in {Me, NoUser}
  /\ clock = TicksPerDay
  /\ dbMember = NoRow
  /\ route = "ProfileSetup"
  /\ setupScreen = [ConstructedSetupScreen EXCEPT !.checkSession = "getSession"]
  /\ setupCall = [c \in SetupCalls |-> IdleSetup]
  /\ dbStorage = {}
  /\ events = 0
  /\ HomeNotMounted
  /\ EventsNotMounted
  /\ ProfileNotMounted
  /\ LoginNotMounted
  /\ OrgsNotMounted

\* the form is on screen: the navigator shows the screen and the spinner
\* does not replace it
SetupVisible == route = "ProfileSetup" /\ ~setupScreen.loading

\* checkSession: getSession resolves; with an error or without a session the
\* navigator goes back to Login
SetupCheckSession(ok) ==
  /\ setupScreen.checkSession = "getSession"
  /\ setupScreen' = [setupScreen EXCEPT !.checkSession = "done"]
  /\ route' = IF ok /\ session # NoUser THEN route ELSE "Login"
  /\ UNCHANGED <<events, session, dbMember, setupCall, dbStorage, beyondSetup>>

\* onChangeText of the three inputs
SetupChangeText(field, text) ==
  /\ events < MaxProfileGestures
  /\ events' = events + 1
  /\ SetupVisible
  /\ setupScreen.formData[field] # text
  /\ setupScreen' = [setupScreen EXCEPT !.formData[field] = text]
  /\ UNCHANGED <<session, dbMember, route, setupCall, dbStorage, beyondSetup>>

\* pickImage with a picture chosen
PickImage ==
  /\ events < MaxProfileGestures
  /\ events' = events + 1
  /\ SetupVisible
  /\ ~setupScreen.uploading
  /\ setupScreen.profilePicture # PickedImage
  /\ setupScreen' = [setupScreen EXCEPT !.profilePicture = PickedImage]
  /\ UNCHANGED <<session, dbMember, route, setupCall, dbStorage, beyondSetup>>

\* handleSubmit's validation
SetupRejected(formData) == formData.firstName = "" \/ formData.lastName = ""

\* handleSubmit's catch and finally: setError(err.message), setLoading(false)
SetupThrow(c, message) ==
  /\ setupCall' = [setupCall EXCEPT ![c].pc = "failed"]
  /\ setupScreen' = [setupScreen EXCEPT !.error = message, !.loading = FALSE]

\* The Complete Profile button, enabled while neither loading nor uploading:
\* handleSubmit up to its first await, or to the return of its validation
\* (whose finally clears loading again)
PressSubmit(c) ==
  /\ events < MaxProfileGestures
  /\ events' = events + 1
  /\ SetupVisible
  /\ ~setupScreen.uploading
  /\ setupCall[c].pc = "idle"
  /\ \A d \in SetupCalls : d < c => setupCall[d].pc # "idle"
  /\ IF SetupRejected(setupScreen.formData)
       THEN /\ setupCall' = [setupCall EXCEPT ![c] =
                 [IdleSetup EXCEPT !.pc = "rejected",
                                   !.formData = setupScreen.formData,
                                   !.profilePicture = setupScreen.profilePicture]]
            /\ setupScreen' = [setupScreen EXCEPT !.error = NamesRequiredMsg,
                                                  !.loading = FALSE]
       ELSE /\ setupCall' = [setupCall EXCEPT ![c] =
                 [IdleSetup EXCEPT !.pc = "getUser",
                                   !.formData = setupScreen.formData,
                                   !.profilePicture = setupScreen.profilePicture,
                                   !.issued = <<"getUser">>]]
            /\ setupScreen' = [setupScreen EXCEPT !.error = "", !.loading = TRUE]
  /\ UNCHANGED <<session, dbMember, route, dbStorage, beyondSetup>>

\* profilePicture && profilePicture.startsWith('file://')
IsLocalFile(picture) == picture = PickedImage

\* getUser resolves: an error or no user is thrown to the catch clause; with
\* a picked picture uploadProfilePicture starts (setUploading(true), its own
\* getUser), otherwise the insert is issued
SetupGetUser(c, ok) ==
  /\ setupCall[c].pc = "getUser"
  /\ IF ~ok
       THEN SetupThrow(c, RemoteErrorMsg)
       ELSE IF session = NoUser
         THEN SetupThrow(c, NoUserFoundMsg)
         ELSE IF IsLocalFile(setupCall[c].profilePicture)
           THEN /\ setupCall' = [setupCall EXCEPT ![c].pc = "uploadGetUser",
                                                  ![c].issued = Append(@, "getUser")]
                /\ setupScreen' = [setupScreen EXCEPT !.uploading = TRUE]
           ELSE /\ setupCall' = [setupCall EXCEPT
                     ![c].pc = "insert",
                     ![c].profilePictureUrl = setupCall[c].profilePicture,
                     ![c].issued = Append(@, "insert")]
                /\ UNCHANGED setupScreen
  /\ UNCHANGED <<events, session, dbMember, route, dbStorage, beyondSetup>>

\* mutant: the abort clears the form
AbortedScreenFormCleared(scr) ==
  [scr EXCEPT !.uploading = FALSE, !.alert = UploadFailedMsg,
              !.loading = FALSE, !.formData = EmptyForm]

\* the screen after uploadProfilePicture threw: its finally clears
\* uploading, handleSubmit's inner catch alerts and returns, and the outer
\* finally clears loading
AbortedScreen(scr) ==
  [scr EXCEPT !.uploading = FALSE, !.alert = UploadFailedMsg, !.loading = FALSE]

\* mutant: the inner catch does not return, and the insert is issued
\* without a picture
SetupUploadFailedGoesOn(c) ==
  /\ setupCall' = [setupCall EXCEPT ![c].pc = "insert",
                                    ![c].uploadFailed = TRUE,
                                    ![c].issued = Append(@, "insert")]
  /\ setupScreen' = [setupScreen EXCEPT !.uploading = FALSE,
                                        !.alert = UploadFailedMsg]

\* uploadProfilePicture threw: handleSubmit returns from its inner catch
SetupUploadFailed(c) ==
  /\ setupCall' = [setupCall EXCEPT ![c].pc = "aborted", ![c].uploadFailed = TRUE]
  /\ setupScreen' = AbortedScreen(setupScreen)

\* uploadProfilePicture: its getUser resolves; an error or no user is thrown,
\* otherwise the file is read and the storage upload issued
SetupUploadGetUser(c, ok) ==
  /\ setupCall[c].pc = "uploadGetUser"
  /\ IF ok /\ session # NoUser
       THEN /\ setupCall' = [setupCall EXCEPT ![c].pc = "upload",
                                              ![c].issued = Append(@, "upload")]
            /\ UNCHANGED setupScreen
       ELSE SetupUploadFailed(c)
  /\ UNCHANGED <<events, session, dbMember, route, dbStorage, beyondSetup>>

\* uploadProfilePicture: the storage upload resolves; an error is thrown,
\* otherwise the file is stored and createSignedUrl issued
SetupUpload(c, ok) ==
  /\ setupCall[c].pc = "upload"
  /\ IF ok
       THEN /\ dbStorage' = dbStorage \cup {setupCall[c].profilePicture}
            /\ setupCall' = [setupCall EXCEPT ![c].pc = "signedUrl",
                                              ![c].issued = Append(@, "createSignedUrl")]
            /\ UNCHANGED setupScreen
       ELSE /\ SetupUploadFailed(c)
            /\ UNCHANGED dbStorage
  /\ UNCHANGED <<events, session, dbMember, route, beyondSetup>>

\* uploadProfilePicture: createSignedUrl resolves, its error is not looked
\* at: the function returns the signed url or null, its finally clears
\* uploading, and handleSubmit issues the insert
SetupSignedUrl(c, ok) ==
  /\ setupCall[c].pc = "signedUrl"
  /\ setupCall' = [setupCall EXCEPT
       ![c].pc = "insert",
       ![c].profilePictureUrl = IF ok THEN "signedUrl" ELSE "",
       ![c].issued = Append(@, "insert")]
  /\ setupScreen' = [setupScreen EXCEPT !.uploading = FALSE]
  /\ UNCHANGED <<events, session, dbMember, route, dbStorage, beyondSetup>>

\* the row handleSubmit inserts
InsertedMember(user, formData, profilePictureUrl) ==
  [id |-> user, first_name |-> formData.firstName,
   last_name |-> formData.lastName, bio |-> formData.bio, updated_at |-> 0,
   organization_ids |-> {}, profile_picture_url |-> profilePictureUrl]

\* the members insert resolves: on success the navigator replaces the screen
\* by the main tabs, an error is thrown to the catch clause; finally clears
\* loading. A row that exists already is a primary-key error.
SetupInsert(c, ok) ==
  /\ setupCall[c].pc = "insert"
  /\ IF ok /\ dbMember = NoRow
       THEN /\ dbMember' = InsertedMember(Me, setupCall[c].formData,
                                          setupCall[c].profilePictureUrl)
            /\ route' = "MainTabs"
            /\ setupCall' = [setupCall EXCEPT ![c].pc = "done"]
            /\ setupScreen' = [setupScreen EXCEPT !.loading = FALSE]
       ELSE /\ SetupThrow(c, RemoteErrorMsg)
            /\ UNCHANGED <<dbMember, route>>
  /\ UNCHANGED <<events, session, dbStorage, beyondSetup>>

SetupNext ==
  \/ \E ok \in BOOLEAN : SetupCheckSession(ok)
  \/ \E field \in FormFields, text \in Names : SetupChangeText(field, text)
  \/ PickImage
  \/ \E c \in SetupCalls : PressSubmit(c)
  \/ \E c \in SetupCalls, ok \in BOOLEAN : SetupGetUser(c, ok)
  \/ \E c \in SetupCalls, ok \in BOOLEAN : SetupUploadGetUser(c, ok)
  \/ \E c \in SetupCalls, ok \in BOOLEAN : SetupUpload(c, ok)
  \/ \E c \in SetupCalls, ok \in BOOLEAN : SetupSignedUrl(c, ok)
  \/ \E c \in SetupCalls, ok \in BOOLEAN : SetupInsert(c, ok)

SetupSpec == SetupInit /\ [][SetupNext]_vars

\* the step in which call c's picture upload fails
UploadFails(c) == ~setupCall[c].uploadFailed /\ setupCall'[c].uploadFailed

\* C25: when the picture upload of a profile setup fails, the flow is
\* aborted: the step inserts no members row, does not navigate and leaves
\* loading cleared, and that submission never issues the insert.
C25_UploadFailureAbortsSetup ==
  /\ [][\A c \in SetupCalls :
          UploadFails(c) =>
            /\ setupCall'[c].pc = "aborted"
            /\ dbMember' = dbMember
            /\ route' = route
            /\ ~setupScreen'.loading]_vars
  /\ [](\A c \in SetupCalls :
          setupCall[c].uploadFailed =>
            /\ setupCall[c].pc = "aborted"
            /\ \A i \in 1..Len(setupCall[c].issued) : setupCall[c].issued[i] # "insert")

\* C25 witness: a submission with a picked picture was aborted by the failed
\* storage upload; there is no members row and the screen is still shown.
C25_Witness ==
  \E c \in SetupCalls :
    /\ setupCall[c].pc = "aborted"
    /\ setupCall[c].issued = <<"getUser", "getUser", "upload">>
    /\ dbMember = NoRow
    /\ route = "ProfileSetup"
    /\ ~setupScreen.loading
    /\ setupScreen.alert = UploadFailedMsg

\* C26 as stated: after the abort the form state no longer holds the values
\* the user entered.
C26_FormLostAfterAbort ==
  [][\A c \in SetupCalls :
       UploadFails(c) => setupScreen'.formData # setupCall[c].formData]_vars

\* C26: after the abort the form state still holds the first name, last
\* name and bio the user entered, and the picked picture.
C26_FormKeptAfterAbort ==
  [][\A c \in SetupCalls :
       UploadFails(c) =>
         /\ setupScreen'.formData = setupCall[c].formData
         /\ setupScreen'.profilePicture = setupCall[c].profilePicture]_vars

\* C26 witness: after an aborted submission the form is on screen again
\* with the entered names in it.
C26_Witness ==
  \E c \in SetupCalls :
    /\ setupCall[c].pc = "aborted"
    /\ SetupVisible
    /\ setupScreen.formData.firstName = "Ana"
    /\ setupScreen.formData.lastName = "Ana"
    /\ setupScreen.formData = setupCall[c].formData

\* -------------------------------------------------------------- LoginScreen

Domain == "@dlsl.edu.ph"

DomainMsg == "Only DLSU email addresses are allowed"

\* texts typed into the email input, as pieces: none, an address of the
\* domain, one of another domain, and one that has the domain inside it
Emails == {<< >>, <<"a", Domain>>, <<"a", "@x.ph">>, <<Domain, "x">>}

\* String.prototype.endsWith
endsWith(s, suffix) ==
  /\ Len(suffix) <= Len(s)
  /\ SubSeq(s, Len(s) - Len(suffix) + 1, Len(s)) = suffix

\* the state the Login screen's handlers neither read nor write
beyondLogin ==
  <<homeVars, eventsVars, profileVars, profileMore, clock, setupCall,
    dbStorage, orgsVars>>

\* The Login screen constructed: nobody is logged in, and the account that
\* will sign in or up has a members row or has none.
LoginInit ==
  /\ session = NoUser
  /\ clock = TicksPerDay
  /\ dbMember \in {NoRow, MemberRow({})}
  /\ route = "Login"
  /\ loginScreen = ConstructedLoginScreen
  /\ loginCall = [c \in LoginCalls |-> IdleLogin]
  /\ events = 0
  /\ HomeNotMounted
  /\ EventsNotMounted
  /\ ProfileNotMounted
  /\ SetupNotMounted
  /\ OrgsNotMounted

\* onChangeText of the email input
LoginChangeEmail(text) ==
  /\ events < MaxProfileGestures
  /\ events' = events + 1
  /\ route = "Login"
  /\ loginScreen.email # text
  /\ loginScreen' = [loginScreen EXCEPT !.email = text]
  /\ UNCHANGED <<session, dbMember, route, loginCall, setupScreen, beyondLogin>>

\* onChangeText of the password input
LoginChangePassword(text) ==
  /\ events < MaxProfileGestures
  /\ events' = events + 1
  /\ route = "Login"
  /\ loginScreen.password # text
  /\ loginScreen' = [loginScreen EXCEPT !.password = text]
  /\ UNCHANGED <<session, dbMember, route, loginCall, setupScreen, beyondLogin>>

\* the button that switches between signing in and signing up
ToggleSignUp ==
  /\ events < MaxProfileGestures
  /\ events' = events + 1
  /\ route = "Login"
  /\ loginScreen' = [loginScreen EXCEPT !.isSignUp = ~@]
  /\ UNCHANGED <<session, dbMember, route, loginCall, setupScreen, beyondLogin>>

\* handleEmailSignIn's validation
LoginRejected(email) == ~endsWith(email, <<Domain>>)

\* handleEmailSignIn's catch and finally: setError(err.message),
\* setLoading(false)
LoginThrow(c) ==
  /\ loginCall' = [loginCall EXCEPT ![c].pc = "failed"]
  /\ loginScreen' = [loginScreen EXCEPT !.error = RemoteErrorMsg,
                                        !.loading = FALSE]

\* The Sign In / Sign Up button, enabled while not loading and with an email
\* and a password typed: handleEmailSignIn up to its first await, or to the
\* return of its validation (whose finally clears loading again)
PressSignIn(c) ==
  /\ events < MaxProfileGestures
  /\ events' = events + 1
  /\ route = "Login"
  /\ ~loginScreen.loading
  /\ loginScreen.email # << >>
  /\ loginScreen.password # ""
  /\ loginCall[c].pc = "idle"
  /\ \A d \in LoginCalls : d < c => loginCall[d].pc # "idle"
  /\ LET started == [IdleLogin EXCEPT !.email = loginScreen.email,
                                      !.password = loginScreen.password,
                                      !.isSignUp = loginScreen.isSignUp]
     IN IF LoginRejected(loginScreen.email)
          THEN /\ loginCall' = [loginCall EXCEPT ![c] =
                    [started EXCEPT !.pc = "rejected"]]
               /\ loginScreen' = [loginScreen EXCEPT !.error = DomainMsg,
                                                     !.loading = FALSE]
          ELSE /\ loginCall' = [loginCall EXCEPT ![c] =
                    IF loginScreen.isSignUp
                      THEN [started EXCEPT !.pc = "signUp", !.issued = <<"signUp">>]
                      ELSE [started EXCEPT !.pc = "signIn",
                                           !.issued = <<"signInWithPassword">>]]
               /\ loginScreen' = [loginScreen EXCEPT !.error = "", !.loading = TRUE]
  /\ UNCHANGED <<session, dbMember, route, setupScreen, beyondLogin>>

\* signInWithPassword resolves: an error is thrown to the catch clause,
\* otherwise the navigator replaces the screen by the main tabs
LoginSignIn(c, ok) ==
  /\ loginCall[c].pc = "signIn"
  /\ IF ok
       THEN /\ session' = Me
            /\ route' = "MainTabs"
            /\ loginCall' = [loginCall EXCEPT ![c].pc = "done"]
            /\ loginScreen' = [loginScreen EXCEPT !.loading = FALSE]
       ELSE /\ LoginThrow(c)
            /\ UNCHANGED <<session, route>>
  /\ UNCHANGED <<events, dbMember, setupScreen, beyondLogin>>

\* how signUp can resolve: with an error, with a user, or without one
SignUpOutcomes == {"error", "user", "no user"}

\* signUp resolves: an error is thrown to the catch clause; with data.user
\* the members row of the user is looked up; without, nothing more is done
LoginSignUp(c, outcome) ==
  /\ loginCall[c].pc = "signUp"
  /\ IF outcome = "error"
       THEN /\ LoginThrow(c)
            /\ UNCHANGED session
       ELSE IF outcome = "user"
         THEN /\ session' = Me
              /\ loginCall' = [loginCall EXCEPT ![c].pc = "member",
                                                ![c].issued = Append(@, "select")]
              /\ UNCHANGED loginScreen
         ELSE /\ loginCall' = [loginCall EXCEPT ![c].pc = "done"]
              /\ loginScreen' = [loginScreen EXCEPT !.loading = FALSE]
              /\ UNCHANGED session
  /\ UNCHANGED <<events, dbMember, route, setupScreen, beyondLogin>>

\* the error code of members.select().single(): none with a row, PGRST116
\* when the query ran and found no row, another one when the query failed
MemberErrorCode(row, ok) ==
  IF ~ok THEN "other" ELSE IF row = NoRow THEN "PGRST116" ELSE "none"

\* the screen the sign-up goes to after the lookup
AfterSignUp(code) == IF code = "PGRST116" THEN "ProfileSetup" ELSE "MainTabs"

\* the members lookup resolves and the navigator replaces the screen; the
\* ProfileSetup screen mounts with its checkSession called
LoginMember(c, ok) ==
  /\ loginCall[c].pc = "member"
  /\ route' = AfterSignUp(MemberErrorCode(dbMember, ok))
  /\ setupScreen' = IF route' = "ProfileSetup"
                      THEN [ConstructedSetupScreen EXCEPT !.checkSession = "getSession"]
                      ELSE setupScreen
  /\ loginCall' = [loginCall EXCEPT ![c].pc = "done"]
  /\ loginScreen' = [loginScreen EXCEPT !.loading = FALSE]
  /\ UNCHANGED <<events, session, dbMember, beyondLogin>>

LoginNext ==
  \/ \E text \in Emails : LoginChangeEmail(text)
  \/ \E text \in Passwords : LoginChangePassword(text)
  \/ ToggleSignUp
  \/ \E c \in LoginCalls : PressSignIn(c)
  \/ \E c \in LoginCalls, ok \in BOOLEAN : LoginSignIn(c, ok)
  \/ \E c \in LoginCalls, outcome \in SignUpOutcomes : LoginSignUp(c, outcome)
  \/ \E c \in LoginCalls, ok \in BOOLEAN : LoginMember(c, ok)

LoginSpec == LoginInit /\ [][LoginNext]_vars

\* the step in which the members lookup of sign-up c resolves
LookupResolves(c) == loginCall[c].pc = "member" /\ loginCall'[c].pc = "done"

\* the step in which the authentication call of c fails
AuthFails(c) ==
  /\ loginCall[c].pc \in {"signUp", "signIn"}
  /\ loginCall'[c].pc = "failed"

\* C30: after a successful sign-up the app goes to ProfileSetup exactly when
\* the account has no members row and to MainTabs only when it has one; a
\* failed authentication call does not navigate and sets the error message.
C30_SignUpGoesWhereTheMemberRowSays ==
  [][\A c \in LoginCalls :
       /\ LookupResolves(c) =>
            /\ (route' = "ProfileSetup") = (dbMember = NoRow)
            /\ route' = "MainTabs" => dbMember # NoRow
       /\ AuthFails(c) =>
            /\ route' = route
            /\ loginScreen'.error # ""]_vars

\* ------------------------------------------------------ OrganizationsScreen

\* the rows of the organizations table, by id
OrganizationRows == {Org}

\* the state the Organizations screen's handlers neither read nor write
beyondOrgs ==
  <<homeVars, eventsVars, profileVars, profileMore, clock, route, setupVars,
    loginVars>>

\* The Organizations screen constructed and mounted: the list empty, loading
\* shown, and the mount effect has called fetchUserOrganizations.
OrgsInit ==
  /\ session \in {Me, NoUser}
  /\ clock = TicksPerDay
  /\ dbMember \in {MemberRow({}), MemberRow({Org})}
  /\ orgsScreen = ConstructedOrgsScreen
  /\ orgsFetch = [f \in OrgFetches |->
       IF f = <<"mount", 1>> THEN [IdleOrgsFetch EXCEPT !.pc = "getUser"]
                             ELSE IdleOrgsFetch]
  /\ events = 0
  /\ route = "MainTabs"
  /\ HomeNotMounted
  /\ EventsNotMounted
  /\ ProfileNotMounted
  /\ SetupNotMounted
  /\ LoginNotMounted

\* the list is rendered, not the spinner
OrgsListVisible == ~(orgsScreen.loading /\ ~orgsScreen.refreshing)

\* finally { setLoading(false) }, and onRefresh's setRefreshing(false) after
\* its awaited fetchUserOrganizations
OrgsFinally(scr, f) ==
  [scr EXCEPT !.loading = FALSE,
              !.refreshing = IF f[1] = "refresh" THEN FALSE ELSE @]

\* mutant: the catch clause empties the list
OrgsFailedClearsList(scr, f) ==
  OrgsFinally([scr EXCEPT !.organizations = {}], f)

\* the screen after fetchUserOrganizations threw: the catch clause logs, and
\* finally runs
OrgsFailed(scr, f) == OrgsFinally(scr, f)

\* getUser resolves: without a user 'No user found' is thrown, otherwise
\* setUserId, and the members query is issued
OrgsGetUser(f) ==
  /\ orgsFetch[f].pc = "getUser"
  /\ IF session = NoUser
       THEN /\ orgsFetch' = [orgsFetch EXCEPT ![f].pc = "failed"]
            /\ orgsScreen' = OrgsFailed(orgsScreen, f)
       ELSE /\ orgsFetch' = [orgsFetch EXCEPT ![f].pc = "members"]
            /\ orgsScreen' = [orgsScreen EXCEPT !.userId = session]
  /\ UNCHANGED <<events, session, dbMember, beyondOrgs>>

\* the members query resolves: an error, or no row for .single(), is thrown;
\* with organization ids the organizations query is issued, without any
\* setOrganizations([])
OrgsMembers(f, ok) ==
  /\ orgsFetch[f].pc = "members"
  /\ IF ~ok \/ dbMember = NoRow
       THEN /\ orgsFetch' = [orgsFetch EXCEPT ![f].pc = "failed"]
            /\ orgsScreen' = OrgsFailed(orgsScreen, f)
       ELSE IF dbMember.organization_ids # {}
         THEN /\ orgsFetch' = [orgsFetch EXCEPT ![f].pc = "organizations",
                                                ![f].ids = dbMember.organization_ids]
              /\ UNCHANGED orgsScreen
         ELSE /\ orgsFetch' = [orgsFetch EXCEPT ![f].pc = "done"]
              /\ orgsScreen' = OrgsFinally([orgsScreen EXCEPT !.organizations = {}], f)
  /\ UNCHANGED <<events, session, dbMember, beyondOrgs>>

\* the organizations query resolves: an error is thrown, otherwise
\* setOrganizations(orgData)
OrgsSelect(f, ok) ==
  /\ orgsFetch[f].pc = "organizations"
  /\ IF ok
       THEN /\ orgsFetch' = [orgsFetch EXCEPT ![f].pc = "done"]
            /\ orgsScreen' = OrgsFinally(
                 [orgsScreen EXCEPT !.organizations = OrganizationRows \cap orgsFetch[f].ids], f)
       ELSE /\ orgsFetch' = [orgsFetch EXCEPT ![f].pc = "failed"]
            /\ orgsScreen' = OrgsFailed(orgsScreen, f)
  /\ UNCHANGED <<events, session, dbMember, beyondOrgs>>

\* pull to refresh: setRefreshing(true), then fetchUserOrganizations up to
\* its first await
OrgsOnRefresh(i) ==
  /\ events < MaxEvents
  /\ events' = events + 1
  /\ OrgsListVisible
  /\ ~orgsScreen.refreshing
  /\ orgsFetch[<<"refresh", i>>].pc = "idle"
  /\ \A j \in 1..MaxRefreshes : j < i => orgsFetch[<<"refresh", j>>].pc # "idle"
  /\ orgsScreen' = [orgsScreen EXCEPT !.refreshing = TRUE, !.loading = TRUE]
  /\ orgsFetch' = [orgsFetch EXCEPT ![<<"refresh", i>>].pc = "getUser"]
  /\ UNCHANGED <<session, dbMember, beyondOrgs>>

\* the viewer leaves the organization (on another device)
LeaveOrganization ==
  /\ events < MaxEvents
  /\ events' = events + 1
  /\ dbMember # NoRow
  /\ dbMember.organization_ids # {}
  /\ dbMember' = [dbMember EXCEPT !.organization_ids = {}]
  /\ UNCHANGED <<session, orgsScreen, orgsFetch, beyondOrgs>>

OrgsNext ==
  \/ \E f \in OrgFetches : OrgsGetUser(f)
  \/ \E f \in OrgFetches, ok \in BOOLEAN : OrgsMembers(f, ok)
  \/ \E f \in OrgFetches, ok \in BOOLEAN : OrgsSelect(f, ok)
  \/ \E i \in 1..MaxRefreshes : OrgsOnRefresh(i)
  \/ LeaveOrganization

\* ---------------------------------------------------------- the list fetches

\* the Home, Events or Organizations screen is the one open
HomeMounted == fetch[<<"mount", 1>>].pc # "idle"
EventsMounted == eventsFetch[<<"mount", 1>>].pc # "idle"
OrgsMounted == orgsFetch[<<"mount", 1>>].pc # "idle"

\* One of the three list screens is open, as its own specification starts it.
ListsInit == Init \/ EventsInit \/ OrgsInit

\* The steps of the screen that is open.
ListsNext ==
  \/ HomeMounted /\ Next
  \/ EventsMounted /\ EventsNext
  \/ OrgsMounted /\ OrgsNext

ListsSpec == ListsInit /\ [][ListsNext]_vars

\* C29: when the main row query of a list fetch fails, the step leaves the
\* held list and the displayed list as they were and loading false: the
\* posts query of fetchPosts (also in the recovery refetch of a failed like,
\* which keeps the optimistic values), the events query of fetchEvents, and
\* the organizations query of fetchUserOrganizations.
C29_FailedFetchKeepsLists ==
  [][/\ \A f \in Fetches :
          FetchSelect(f, FALSE) =>
            /\ posts' = posts
            /\ filteredPosts' = filteredPosts
            /\ loading' = FALSE
     /\ \A f \in EventFetches :
          FetchEventsSelect(f, FALSE) =>
            /\ eventsScreen'.events = eventsScreen.events
            /\ eventsScreen'.filteredEvents = eventsScreen.filteredEvents
            /\ eventsScreen'.loading = FALSE
     /\ \A f \in OrgFetches :
          OrgsSelect(f, FALSE) =>
            /\ orgsScreen'.organizations = orgsScreen.organizations
            /\ orgsScreen'.loading = FALSE]_vars

\* C29 witness: the organizations query of a refresh has failed, and the
\* list fetched on mount is still shown, with loading false.
C29_Witness ==
  /\ orgsFetch[<<"refresh", 1>>].pc = "failed"
  /\ orgsFetch[<<"refresh", 1>>].ids # {}
  /\ orgsScreen.organizations = {Org}
  /\ ~orgsScreen.loading

\* ------------------------------------------------------------- the forms

\* The ProfileSetup, Profile or Login screen is open, as its own
\* specification starts it.
FormsInit == SetupInit \/ ProfileInit \/ LoginInit

\* The steps of the three screens; sign-up leads from Login to ProfileSetup
\* and a missing session from ProfileSetup back to Login.
FormsNext == SetupNext \/ ProfileNext \/ LoginNext

FormsSpec == FormsInit /\ [][FormsNext]_vars

\* the backend is left as it is: account, members row, stored files
BackendUnchanged ==
  UNCHANGED <<session, dbPassword, dbMember, dbStorage, dbLikes, dbEdges, dbEventRows>>

\* the step in which submission c of a form starts
SubmitStarts(calls, c) == calls[c].pc = "idle" /\ calls'[c].pc # "idle"

\* C21: a submission that fails validation issues no backend call, surfaces
\* its error message and leaves the backend unchanged: profile setup with an
\* empty first or last name, a password change whose two entries differ, and
\* a sign-in or sign-up whose email does not end with the domain.
C21_FailedValidationStaysLocal ==
  [][/\ \A c \in SetupCalls :
          /\ SubmitStarts(setupCall, c)
          /\ setupScreen.formData.firstName = "" \/ setupScreen.formData.lastName = ""
          => /\ setupCall'[c].issued = << >>
             /\ setupCall'[c].pc = "rejected"
             /\ setupScreen'.error = NamesRequiredMsg
             /\ BackendUnchanged
     /\ \A c \in PasswordCalls :
          /\ SubmitStarts(passwordCall, c)
          /\ profileScreen.newPassword # profileScreen.confirmPassword
          => /\ passwordCall'[c].issued = << >>
             /\ passwordCall'[c].pc = "rejected"
             /\ profileScreen'.alert = PasswordMismatchMsg
             /\ BackendUnchanged
     /\ \A c \in LoginCalls :
          /\ SubmitStarts(loginCall, c)
          /\ loginScreen.email[Len(loginScreen.email)] # Domain
          => /\ loginCall'[c].issued = << >>
             /\ loginCall'[c].pc = "rejected"
             /\ loginScreen'.error = DomainMsg
             /\ BackendUnchanged
     /\ \A c \in SetupCalls :
          setupCall[c].pc = "rejected" => setupCall'[c] = setupCall[c]
     /\ \A c \in PasswordCalls :
          passwordCall[c].pc = "rejected" => passwordCall'[c] = passwordCall[c]
     /\ \A c \in LoginCalls :
          loginCall[c].pc = "rejected" => loginCall'[c] = loginCall[c]]_vars

\* C21 witness: a password change with different entries was rejected: the
\* mismatch alert is shown, nothing was issued, the password is the old one.
C21_Witness ==
  \E c \in PasswordCalls :
    /\ passwordCall[c].pc = "rejected"
    /\ passwordCall[c].newPassword # profileScreen.confirmPassword
    /\ passwordCall[c].issued = << >>
    /\ profileScreen.alert = PasswordMismatchMsg
    /\ dbPassword = OldPassword

====
